---------------------------- MODULE Spec2Model ----------------------------
(***************************************************************************)
(* A model of the Calibre wireless protocol engine of the reader firmware *)
(* (src/src/activities/network/CalibreWirelessActivity.cpp): the framing  *)
(* codec readJsonMessage, the command dispatch, the binary transfer with  *)
(* its write-coalescing buffer, and the two worker tasks with onExit.     *)
(*                                                                         *)
(* Byte strings (std::string, the socket's receive queue, the file on the *)
(* card) are run-length encoded: a sequence of runs [c |-> char, n |-> k] *)
(* in which neighbouring runs carry different characters.  The encoding   *)
(* lets the model keep the program's own sizes (4096, 100000, 1000000).   *)
(***************************************************************************)
EXTENDS Integers, Sequences, FiniteSets, TLC

(***************************************************************************)
(* Program constants.                                                      *)
(***************************************************************************)
WRITE_BUFFER_SIZE == 4096
RECV_BUFFER_LIMIT == 100000
NO_BRACKET_LIMIT == 1000
MAX_PREFIX_LEN == 12
MAX_MSG_LEN == 1000000
NPOS == -1

(***************************************************************************)
(* Bounds of the model.                                                    *)
(***************************************************************************)
MaxFrames == 2
MaxSplit == 2
MaxCuts == 2

(***************************************************************************)
(* std::string over run-length encoded bytes.                              *)
(***************************************************************************)
Run(ch, k) == IF k = 0 THEN <<>> ELSE <<[c |-> ch, n |-> k]>>

RECURSIVE Size(_)
Size(s) == IF s = <<>> THEN 0 ELSE Head(s).n + Size(Tail(s))

Cat(a, b) ==
  IF a = <<>> THEN b
  ELSE IF b = <<>> THEN a
  ELSE IF a[Len(a)].c = b[1].c
       THEN SubSeq(a, 1, Len(a) - 1)
              \o <<[c |-> b[1].c, n |-> a[Len(a)].n + b[1].n]>> \o Tail(b)
       ELSE a \o b

RECURSIVE Drop(_, _)
Drop(s, k) ==
  IF k = 0 \/ s = <<>> THEN s
  ELSE IF Head(s).n <= k THEN Drop(Tail(s), k - Head(s).n)
  ELSE <<[c |-> Head(s).c, n |-> Head(s).n - k]>> \o Tail(s)

RECURSIVE Take(_, _)
Take(s, k) ==
  IF k = 0 \/ s = <<>> THEN <<>>
  ELSE IF Head(s).n <= k THEN <<Head(s)>> \o Take(Tail(s), k - Head(s).n)
  ELSE <<[c |-> Head(s).c, n |-> k]>>

Substr(s, pos, len) == Take(Drop(s, pos), len)

RECURSIVE FindAcc(_, _, _)
FindAcc(s, ch, acc) ==
  IF s = <<>> THEN NPOS
  ELSE IF Head(s).c = ch THEN acc
  ELSE FindAcc(Tail(s), ch, acc + Head(s).n)

Find(s, ch) == FindAcc(s, ch, 0)

RECURSIVE Str(_)
Str(chars) ==
  IF chars = <<>> THEN <<>> ELSE Cat(Run(Head(chars), 1), Str(Tail(chars)))

RECURSIVE Chars(_)
Chars(s) ==
  IF s = <<>> THEN <<>>
  ELSE <<Head(s).c>> \o Chars(Drop(s, 1))

Digits == <<"0", "1", "2", "3", "4", "5", "6", "7", "8", "9">>
IsDigit(ch) == \E i \in 1..10 : Digits[i] = ch
DigitVal(ch) == (CHOOSE i \in 1..10 : Digits[i] = ch) - 1

AllDigits(s) == \A i \in 1..Len(s) : IsDigit(s[i].c)

(***************************************************************************)
(* std::stoul on a string of decimal digits.  unsigned long has 32 bits   *)
(* on the target, so a value above ULONG_MAX = 4294967295 is out of       *)
(* range (std::out_of_range).  The value is computed when it has at most  *)
(* nine significant digits; a ten-digit value within range is reported as *)
(* "huge" (it is above every length the program compares it with).        *)
(***************************************************************************)
RECURSIVE StripZeros(_)
StripZeros(ds) ==
  IF ds # <<>> /\ Head(ds) = "0" THEN StripZeros(Tail(ds)) ELSE ds

RECURSIVE DecVal(_, _)
DecVal(ds, acc) ==
  IF ds = <<>> THEN acc ELSE DecVal(Tail(ds), acc * 10 + DigitVal(Head(ds)))

ULONG_MAX == <<"4", "2", "9", "4", "9", "6", "7", "2", "9", "5">>

RECURSIVE LexLeq(_, _)
LexLeq(a, b) ==
  \/ a = <<>>
  \/ DigitVal(Head(a)) < DigitVal(Head(b))
  \/ Head(a) = Head(b) /\ LexLeq(Tail(a), Tail(b))

stoul(s) ==
  LET sig == StripZeros(Chars(s)) IN
  IF Len(sig) <= 9 THEN [status |-> "ok", value |-> DecVal(sig, 0)]
  ELSE IF Len(sig) = 10 /\ LexLeq(sig, ULONG_MAX)
       THEN [status |-> "huge", value |-> 0]
  ELSE [status |-> "out_of_range", value |-> 0]

(***************************************************************************)
(* std::to_string of a natural number, as a byte string.                   *)
(***************************************************************************)
RECURSIVE DecDigits(_)
DecDigits(k) ==
  IF k < 10 THEN <<Digits[k + 1]>> ELSE DecDigits(k \div 10) \o <<Digits[(k % 10) + 1]>>

to_string(k) == Str(DecDigits(k))

(***************************************************************************)
(* std::string operations on plain character sequences (the texts the      *)
(* handlers scan).  Positions count from 0, as in the program.             *)
(***************************************************************************)
Min(a, b) == IF a < b THEN a ELSE b

CSubstr(cs, pos, len) == SubSeq(cs, pos + 1, Min(pos + len, Len(cs)))

CFrom(cs, pos) == SubSeq(cs, pos + 1, Len(cs))

CFind(cs, pat, from) ==
  LET hits == { i \in 0..(Len(cs) - Len(pat)) :
                  i >= from /\ SubSeq(cs, i + 1, i + Len(pat)) = pat }
  IN IF from = NPOS \/ hits = {} THEN NPOS
     ELSE CHOOSE i \in hits : \A j \in hits : i <= j

CRFind(cs, ch) ==
  LET hits == { i \in 0..(Len(cs) - 1) : cs[i + 1] = ch }
  IN IF hits = {} THEN NPOS ELSE CHOOSE i \in hits : \A j \in hits : j <= i

RECURSIVE LeadingDigits(_)
LeadingDigits(cs) ==
  IF cs # <<>> /\ IsDigit(Head(cs)) THEN 1 + LeadingDigits(Tail(cs)) ELSE 0

RECURSIVE SkipBlanks(_)
SkipBlanks(cs) ==
  IF cs # <<>> /\ Head(cs) \in {" ", "\t"} THEN SkipBlanks(Tail(cs)) ELSE cs

(***************************************************************************)
(* std::stoi: blanks, an optional sign, then digits; std::invalid_argument *)
(* when no digit follows, std::out_of_range above INT_MAX.                 *)
(***************************************************************************)
INT_MAX == <<"2", "1", "4", "7", "4", "8", "3", "6", "4", "7">>

stoi(cs) ==
  LET t == SkipBlanks(cs)
      signed == t # <<>> /\ Head(t) \in {"-", "+"}
      u == IF signed THEN Tail(t) ELSE t
      sig == StripZeros(SubSeq(u, 1, LeadingDigits(u)))
  IN IF LeadingDigits(u) = 0 THEN [status |-> "invalid_argument", value |-> 0]
     ELSE IF Len(sig) > 10 \/ (Len(sig) = 10 /\ ~LexLeq(sig, INT_MAX))
          THEN [status |-> "out_of_range", value |-> 0]
     ELSE [status |-> "ok",
           value |-> IF signed /\ Head(t) = "-" THEN 0 - DecVal(sig, 0) ELSE DecVal(sig, 0)]

(***************************************************************************)
(* handleTcpClient, lines 378-399: the opcode and the data of a message.   *)
(* "found" is false when the message has no '[' or no ',' after it.        *)
(***************************************************************************)
ParseMessage(msg) ==
  LET start == CFind(msg, <<"[">>, 0)
      end == IF start = NPOS THEN NPOS ELSE CFind(msg, <<",">>, start + 1)
  IN IF end = NPOS THEN [found |-> FALSE, opcode |-> stoi(<<>>), data |-> <<>>]
     ELSE LET dataStart == end + 1
              dataEnd == CRFind(msg, "]")
          IN [found |-> TRUE,
              opcode |-> stoi(CSubstr(msg, start + 1, end - (start + 1))),
              data |-> IF dataEnd # NPOS /\ dataEnd > dataStart
                       THEN CSubstr(msg, dataStart, dataEnd - dataStart)
                       ELSE <<>>]

(***************************************************************************)
(* handleSendBook, lines 632-646: the value of "lpath".                    *)
(***************************************************************************)
Q == "\""
KeyLpath == <<Q, "l", "p", "a", "t", "h", Q>>
KeyLength == <<Q, "l", "e", "n", "g", "t", "h", Q>>

ExtractLpath(data) ==
  LET lpathPos == CFind(data, KeyLpath, 0)
      colonPos == IF lpathPos = NPOS THEN NPOS ELSE CFind(data, <<":">>, lpathPos + 7)
      quoteStart == IF colonPos = NPOS THEN NPOS ELSE CFind(data, <<Q>>, colonPos + 1)
      quoteEnd == IF quoteStart = NPOS THEN NPOS ELSE CFind(data, <<Q>>, quoteStart + 1)
  IN IF quoteEnd = NPOS THEN <<>>
     ELSE CSubstr(data, quoteStart + 1, quoteEnd - quoteStart - 1)

(***************************************************************************)
(* handleSendBook, lines 648-685: the top-level "length".  strtoul is      *)
(* computed for numbers of at most nine significant digits.                *)
(***************************************************************************)
strtoul(cs) == DecVal(StripZeros(cs), 0)

LengthAt(data, i) ==
  LET colonPos == CFind(data, <<":">>, i + 8)
      numStart == Len(data) - Len(SkipBlanks(CFrom(data, colonPos + 1)))
      numEnd == numStart + LeadingDigits(CFrom(data, numStart))
  IN IF i + 9 < Len(data) /\ CSubstr(data, i, 8) = KeyLength
        /\ colonPos # NPOS /\ numEnd > numStart
     THEN [found |-> TRUE, value |-> strtoul(CSubstr(data, numStart, numEnd - numStart))]
     ELSE [found |-> FALSE, value |-> 0]

RECURSIVE ScanLength(_, _, _)
ScanLength(data, i, depth) ==
  IF i >= Len(data) THEN 0
  ELSE LET ch == data[i + 1] IN
    IF ch \in {"{", "["} THEN ScanLength(data, i + 1, depth + 1)
    ELSE IF ch \in {"}", "]"} THEN ScanLength(data, i + 1, depth - 1)
    ELSE IF depth = 1 /\ ch = Q /\ LengthAt(data, i).found THEN LengthAt(data, i).value
    ELSE ScanLength(data, i + 1, depth)

ExtractLength(data) == ScanLength(data, 0, 0)

VARIABLES
  \* the peer and the sockets
  wire,            \* bytes the peer has sent that have not reached the socket yet
  tcpRx,           \* bytes waiting in the socket: tcpClient.available() is their count
  tcpConnected,    \* tcpClient.connected()
  udpOpen,         \* udp.begin() has been called and udp.stop() has not
  udpReply,        \* the reply packet waiting in the UDP socket, <<>> when none
  cuts,            \* how many more times the peer's bytes are cut inside a long run
  replies,         \* how many more discovery replies the peer sends
  \* the framing codec
  recvBuffer,      \* CalibreWirelessActivity::recvBuffer
  returned,        \* history: the messages readJsonMessage has returned, in order
  sentFrames,      \* history: the frame bodies the peer put on the wire, in order
  scenario,        \* which kind of stream the peer sends
  capHit,          \* history: the buffer limit has cleared recvBuffer
  crashed,         \* std::stoul or std::stoi has raised: the firmware has aborted
  \* the session
  state, updateRequired, errorMessage, shouldStop,
  calibrePort, calibreAltPort, calibreHostname, calibreHost,
  currentFileSize, bytesReceived, inBinaryMode, binaryBytesRemaining,
  writeBuffer,     \* the first writeBufferPos bytes of the static writeBuffer
  currentWriteFile,\* TRUE when the static pointer is &currentFile, FALSE when nullptr
  currentFile,     \* TRUE when the FsFile is open
  disk,            \* the bytes written to the file of the transfer
  \* the network task
  netPc, netAlive, currentState, message, connected, bcastIdx,
  bwData,          \* bufferedWrite: the bytes of data not copied yet (len is their count)
  bwRet,           \* bufferedWrite: where it returns to
  bwOk,            \* bufferedWrite: its return value
  chunk,           \* toWrite (handleSendBook) or bytesRead (receiveBinaryData)
  \* the display task and the caller of onExit
  dispPc, dispAlive, exitPc, stateMutex, renderingMutex, wifiOn,
  entered,         \* history: how many times onEnter has been called
  probe,           \* getSDCardFreeSpace: the call in progress and the probe file
  \* history
  tcpTx,           \* the envelopes written to tcpClient, in order
  completions,     \* how many times a transfer has reported completion
  writeFailed,     \* a write to the card has come back short
  openFailed,      \* SdMan.openFileForWrite has failed
  ioAfterStop,     \* a worker has used the network after shouldStop was raised
  drained,         \* how many bytes handleSendBook has taken from recvBuffer
  droppedInTransfer, \* the connection has dropped between two steps of a transfer
  unlockedStateRead, \* state has been read by a task that did not hold stateMutex
  droppedIdle      \* the connection has dropped between two steps while WAITING

peerV == <<wire, tcpRx, tcpConnected, udpOpen, udpReply, cuts, replies>>
codecV == <<recvBuffer, returned, capHit, crashed>>
scriptV == <<sentFrames, scenario>>
uiV == <<state, updateRequired, errorMessage>>
discV == <<calibrePort, calibreAltPort, calibreHostname, calibreHost>>
xferV == <<currentFileSize, bytesReceived, inBinaryMode, binaryBytesRemaining>>
fileV == <<writeBuffer, currentWriteFile, currentFile, disk, writeFailed, openFailed,
           probe>>
localV == <<currentState, message, connected, bcastIdx>>
bwV == <<bwData, bwRet, bwOk, chunk>>
taskV == <<netAlive, dispPc, dispAlive, exitPc, stateMutex, renderingMutex, wifiOn,
          entered>>
histV == <<tcpTx, completions, ioAfterStop, drained, droppedInTransfer,
          unlockedStateRead, droppedIdle>>

vars == <<peerV, codecV, scriptV, uiV, discV, xferV, fileV, localV, bwV, taskV, histV,
          netPc, shouldStop>>

(***************************************************************************)
(* onEnter, lines 70-102, with the initial values of the statics (lines    *)
(* 22-24) and of the members (CalibreWirelessActivity.h, lines 65-96):     *)
(* the state of the engine when the two tasks have been created.           *)
(***************************************************************************)
\* getSDCardFreeSpace has not been called; sizes are in MiB
NoProbe ==
  [pc |-> "idle", free |-> 0, canOpen |-> FALSE, i |-> 0, tried |-> <<>>,
   availableSpace |-> 0, testFile |-> FALSE, exists |-> FALSE, reserved |-> 0,
   result |-> 0]

onEnter ==
  /\ stateMutex = "free"
  /\ renderingMutex = "free"
  /\ state = "DISCOVERING"
  /\ errorMessage = ""
  /\ calibreHostname = <<>>
  /\ calibreHost = <<>>
  /\ calibrePort = 0
  /\ calibreAltPort = 0
  /\ currentFileSize = 0
  /\ bytesReceived = 0
  /\ inBinaryMode = FALSE
  /\ recvBuffer = <<>>
  /\ shouldStop = FALSE
  /\ updateRequired = TRUE
  /\ udpOpen = TRUE
  /\ binaryBytesRemaining = 0
  /\ writeBuffer = <<>>
  /\ currentWriteFile = FALSE
  /\ currentFile = FALSE
  /\ wifiOn = TRUE
  /\ netPc = "loop"
  /\ netAlive = "running"
  /\ dispPc = "loop"
  /\ dispAlive = "running"
  /\ exitPc = "idle"
  /\ entered = 1
  /\ probe = NoProbe
  /\ currentState = "DISCOVERING"
  /\ message = [opcode |-> 0, data |-> <<>>]
  /\ connected = FALSE
  /\ bcastIdx = 0
  /\ bwData = <<>>
  /\ bwRet = ""
  /\ bwOk = TRUE
  /\ chunk = 0
  /\ disk = <<>>
  /\ tcpTx = <<>>
  /\ completions = 0
  /\ writeFailed = FALSE
  /\ openFailed = FALSE
  /\ ioAfterStop = FALSE
  /\ drained = 0
  /\ droppedInTransfer = FALSE
  /\ unlockedStateRead = FALSE
  /\ droppedIdle = FALSE
  /\ returned = <<>>
  /\ capHit = FALSE
  /\ crashed = FALSE

(***************************************************************************)
(* readJsonMessage, lines 435-503: the parse of the buffer once the socket *)
(* has been read.  The result gives the return value, the message and the *)
(* buffer left behind; "raised" is std::stoul's exception.                 *)
(***************************************************************************)
NoFrame(buf) == [ret |-> FALSE, message |-> <<>>, buf |-> buf, raised |-> FALSE]

ExtractFrameKeepsPrefixLen(buf, bracketPos, msgLen) ==
  LET totalNeeded == bracketPos + msgLen IN
  IF Size(buf) < totalNeeded THEN NoFrame(buf)
  ELSE [ret |-> TRUE,
        message |-> Substr(buf, bracketPos, msgLen),
        buf |-> IF Size(buf) > totalNeeded THEN Drop(buf, msgLen) ELSE <<>>,
        raised |-> FALSE]

ExtractFrame(buf, bracketPos, msgLen) ==
  LET totalNeeded == bracketPos + msgLen IN
  IF Size(buf) < totalNeeded THEN NoFrame(buf)
  ELSE [ret |-> TRUE,
        message |-> Substr(buf, bracketPos, msgLen),
        buf |-> IF Size(buf) > totalNeeded THEN Drop(buf, totalNeeded) ELSE <<>>,
        raised |-> FALSE]

ValidPrefixOfAnyLength(buf, bracketPos) ==
  /\ bracketPos > 0
  /\ AllDigits(Take(buf, bracketPos))

ValidPrefix(buf, bracketPos) ==
  /\ bracketPos > 0
  /\ bracketPos <= MAX_PREFIX_LEN
  /\ AllDigits(Take(buf, bracketPos))

ParseBuffer(buf) ==
  IF buf = <<>> THEN NoFrame(buf)
  ELSE LET bracketPos == Find(buf, "[") IN
    IF bracketPos = NPOS
    THEN NoFrame(IF Size(buf) > NO_BRACKET_LIMIT THEN <<>> ELSE buf)
    ELSE IF ~ValidPrefix(buf, bracketPos)
    THEN NoFrame(IF bracketPos > 0 THEN Drop(buf, bracketPos) ELSE buf)
    ELSE LET msgLen == stoul(Take(buf, bracketPos)) IN
      IF msgLen.status = "out_of_range"
      THEN [ret |-> FALSE, message |-> <<>>, buf |-> buf, raised |-> TRUE]
      ELSE IF msgLen.status = "huge" \/ msgLen.value > MAX_MSG_LEN
      THEN NoFrame(Drop(buf, bracketPos + 1))
      ELSE ExtractFrame(buf, bracketPos, msgLen.value)

(***************************************************************************)
(* readJsonMessage, lines 407-504.  "taken" is the number of bytes it read *)
(* from the socket: none when the buffer limit clears the buffer, all the *)
(* available bytes otherwise (the read loop runs until available is 0).   *)
(***************************************************************************)
OverLimit(buf, incoming) == Size(incoming) > 0 /\ Size(buf) > RECV_BUFFER_LIMIT

readJsonMessage(buf, incoming) ==
  IF OverLimit(buf, incoming)
  THEN [ret |-> FALSE, message |-> <<>>, buf |-> <<>>, raised |-> FALSE, taken |-> 0]
  ELSE LET r == ParseBuffer(Cat(buf, incoming)) IN
       [ret |-> r.ret, message |-> r.message, buf |-> r.buf, raised |-> r.raised,
        taken |-> Size(incoming)]


(***************************************************************************)
(* The streams of the codec's specification.  A frame is the decimal       *)
(* length of its body followed by the body, which starts with '['.         *)
(***************************************************************************)
Frame(body) == Cat(to_string(Size(body)), body)
PaddedFrame(body) ==
  LET d == to_string(Size(body)) IN
  Cat(Cat(Run("0", MAX_PREFIX_LEN - Size(d)), d), body)

BodyFreeSpace == Str(<<"[", "5", ",", "{", "}", "]">>)
BodyBracket == Str(<<"[">>)
BodyNested == Str(<<"[", "1", "[">>)
BodyLarge == Cat(Str(<<"[">>), Run("x", RECV_BUFFER_LIMIT + 1))

WireFrames ==
  { [bytes |-> Frame(BodyFreeSpace), body |-> BodyFreeSpace],
    [bytes |-> Frame(BodyBracket), body |-> BodyBracket],
    [bytes |-> Frame(BodyNested), body |-> BodyNested],
    [bytes |-> PaddedFrame(BodyFreeSpace), body |-> BodyFreeSpace],
    [bytes |-> Frame(BodyLarge), body |-> BodyLarge] }

FrameSeqs == UNION { [1..k -> WireFrames] : k \in 0..MaxFrames }

RECURSIVE Concat(_)
Concat(fs) == IF fs = <<>> THEN <<>> ELSE Cat(Head(fs).bytes, Concat(Tail(fs)))

Bodies(fs) == [i \in 1..Len(fs) |-> fs[i].body]

Garbage == { Run("x", 1), Run("x", 7), Run("x", MAX_PREFIX_LEN + 1),
             Str(<<"g", "a", "r", "b", "a", "g", "e">>) }
Trailing == { <<>>, Str(<<"m", "o", "r", "e">>) }
Oversized == { Run("9", 7), Str(<<"1", "0", "0", "0", "0", "0", "1">>),
               Run("9", 11) }
OversizedTail == { <<>>, Run("x", 1), Run("1", 1) }
LongPrefixes == { Run("1", MAX_PREFIX_LEN + 1), Run("x", MAX_PREFIX_LEN + 1),
                  Cat(Run("0", MAX_PREFIX_LEN), Run("6", 1)) }

InitCodec ==
  /\ onEnter
  /\ tcpConnected = TRUE
  /\ replies = 0
  /\ udpReply = <<>>
  /\ cuts = MaxCuts
  /\ \E fs \in FrameSeqs :
       /\ wire = Concat(fs)
       /\ \/ /\ scenario = "frames"
             /\ fs # <<>>
             /\ tcpRx = <<>>
             /\ sentFrames = Bodies(fs)
          \/ /\ scenario = "garbage"
             /\ Len(fs) <= 1
             /\ \E g \in Garbage, t \in Trailing :
                  tcpRx = Cat(g, Cat(BodyFreeSpace, t))
             /\ sentFrames = <<BodyFreeSpace>> \o Bodies(fs)
          \/ /\ scenario = "longprefix"
             /\ Len(fs) <= 1
             /\ \E g \in LongPrefixes, t \in Trailing :
                  tcpRx = Cat(g, Cat(BodyFreeSpace, t))
             /\ sentFrames = <<BodyFreeSpace>> \o Bodies(fs)
          \/ /\ scenario = "oversize"
             /\ Len(fs) <= 1
             /\ \E p \in Oversized, t \in OversizedTail :
                  tcpRx = Cat(Cat(p, Str(<<"[">>)), t)
             /\ sentFrames = Bodies(fs)

(***************************************************************************)
(* The peer's bytes reach the socket k at a time: any split of the stream, *)
(* except that a long run of equal bytes is cut only at a few places (one  *)
(* byte before its end and, in a session, one byte in and around the size  *)
(* of the write buffer) and at most MaxCuts times in all.  In a session    *)
(* the frames in front of a book arrive whole or after a first byte.       *)
(***************************************************************************)
BookByte == "x"

\* the bytes in front of the first byte of a book
RECURSIVE HeaderSize(_)
HeaderSize(w) ==
  IF w = <<>> \/ Head(w).c = BookByte THEN 0 ELSE Head(w).n + HeaderSize(Tail(w))

InsideRun(w, k) ==
  /\ w # <<>>
  /\ IF scenario = "session" /\ Head(w).c # BookByte
     THEN k < HeaderSize(w)
     ELSE Head(w).n > MaxSplit /\ k < Head(w).n

CutPoints(n) ==
  {n - 1, n} \cup (IF scenario = "session"
                   THEN {1, WRITE_BUFFER_SIZE - 1, WRITE_BUFFER_SIZE, WRITE_BUFFER_SIZE + 1}
                   ELSE {})

SplitSizes(w) ==
  IF w = <<>> THEN {}
  ELSE { k \in (IF scenario = "session" /\ Head(w).c # BookByte
                THEN {1, HeaderSize(w)}
                ELSE (IF Head(w).n > MaxSplit
                      THEN {c \in CutPoints(Head(w).n) : c <= Head(w).n}
                      ELSE 1..MaxSplit)
                     \cup (IF scenario = "session" THEN {} ELSE {Size(w)})) :
         1 <= k /\ k <= Size(w) /\ (InsideRun(w, k) => cuts > 0) }

Arrive(k) ==
  /\ tcpRx' = Cat(tcpRx, Take(wire, k))
  /\ wire' = Drop(wire, k)
  /\ cuts' = IF InsideRun(wire, k) THEN cuts - 1 ELSE cuts

Deliver ==
  /\ ~crashed
  /\ tcpConnected
  /\ \E k \in SplitSizes(wire) : Arrive(k)
  /\ UNCHANGED <<tcpConnected, udpOpen, udpReply, replies>>
  /\ UNCHANGED <<codecV, scriptV, uiV, discV, xferV, fileV, localV, bwV, taskV, histV,
                 netPc, shouldStop>>

(***************************************************************************)
(* One call of readJsonMessage (handleTcpClient, line 377).                *)
(***************************************************************************)
CallReadJsonMessage ==
  /\ ~crashed
  /\ LET r == readJsonMessage(recvBuffer, tcpRx) IN
       /\ recvBuffer' = r.buf
       /\ tcpRx' = Drop(tcpRx, r.taken)
       /\ returned' = IF r.ret THEN Append(returned, r.message) ELSE returned
       /\ capHit' = (capHit \/ OverLimit(recvBuffer, tcpRx))
       /\ crashed' = r.raised
  /\ UNCHANGED <<wire, tcpConnected, udpOpen, udpReply, cuts, replies>>
  /\ UNCHANGED <<scriptV, uiV, discV, xferV, fileV, localV, bwV, taskV, histV,
                 netPc, shouldStop>>

NextCodec == Deliver \/ CallReadJsonMessage

SpecCodec == InitCodec /\ [][NextCodec]_vars

(***************************************************************************)
(* The session engine.  The network task runs networkTaskLoop one step at  *)
(* a time: netPc is the place in the code it has reached, and every step   *)
(* is one stretch of code between two places where the task can be         *)
(* preempted or where it reads what another task writes.                   *)
(***************************************************************************)
UDP_PORTS == <<"54982", "48123", "39001", "44044", "59678">>

OpCode ==
  [OK |-> 0, GET_DEVICE_INFORMATION |-> 3, TOTAL_SPACE |-> 4, FREE_SPACE |-> 5,
   GET_BOOK_COUNT |-> 6, SEND_BOOK |-> 8, GET_INITIALIZATION_INFO |-> 9,
   NOOP |-> 12, DISPLAY_MESSAGE |-> 17, ERROR |-> 20]

NetRunning == netAlive = "running" /\ ~crashed

\* setState, lines 941-946
SetState(newState) ==
  /\ state' = newState
  /\ updateRequired' = TRUE

\* setError, lines 953-956
setError(msg) ==
  /\ errorMessage' = msg
  /\ SetState("ERROR")

\* a use of the network by the network task, recorded when shouldStop is set
NetIO == ioAfterStop' = (ioAfterStop \/ shouldStop)

\* lines 506-514 with the length of the data in front instead of the length
\* of the whole text
EnvelopeCountsData(opcode, data) ==
  LET json == Cat(Str(<<"[">>),
                  Cat(to_string(opcode), Cat(Str(<<",">>), Cat(data, Str(<<"]">>)))))
  IN  Cat(to_string(Size(data)), json)

\* sendJsonResponse, lines 506-514: what is written to the socket
Envelope(opcode, data) ==
  LET json == Cat(Str(<<"[">>),
                  Cat(to_string(opcode), Cat(Str(<<",">>), Cat(data, Str(<<"]">>)))))
  IN  Cat(to_string(Size(json)), json)

sendJsonResponse(opcode, data) ==
  /\ tcpTx' = Append(tcpTx, Envelope(opcode, data))
  /\ NetIO

\* flushWriteBuffer, lines 26-38; full tells whether the card took every byte
flushWriteBuffer(full) ==
  IF Size(writeBuffer) > 0 /\ currentWriteFile /\ currentFile
  THEN [writeBuffer |-> <<>>,
        disk |-> IF full THEN Cat(disk, writeBuffer) ELSE disk,
        ok |-> full]
  ELSE [writeBuffer |-> writeBuffer, disk |-> disk, ok |-> TRUE]

(***************************************************************************)
(* networkTaskLoop, lines 214-247.                                         *)
(***************************************************************************)

NetLoop ==
  /\ NetRunning /\ netPc = "loop"
  /\ netPc' = IF shouldStop THEN "exit" ELSE "lock"
  /\ UNCHANGED <<peerV, codecV, scriptV, uiV, discV, xferV, fileV, localV,
                 bwV, taskV, histV, shouldStop>>

NetLock ==
  /\ NetRunning /\ netPc = "lock"
  /\ stateMutex = "free"
  /\ currentState' = state
  /\ netPc' = "check"
  /\ UNCHANGED <<peerV, codecV, scriptV, uiV, discV, xferV, fileV, message,
                 connected, bcastIdx, bwV, taskV, histV, shouldStop>>

NetCheck ==
  /\ NetRunning /\ netPc = "check"
  /\ netPc' = IF shouldStop THEN "exit"
              ELSE IF currentState = "DISCOVERING" THEN "ld_start"
              ELSE IF currentState \in {"CONNECTING", "WAITING", "RECEIVING"}
                   THEN "tcp_start"
              ELSE "delay"
  /\ UNCHANGED <<peerV, codecV, scriptV, uiV, discV, xferV, fileV, localV,
                 bwV, taskV, histV, shouldStop>>

NetDelay ==
  /\ NetRunning /\ netPc = "delay"
  /\ netPc' = "loop"
  /\ UNCHANGED <<peerV, codecV, scriptV, uiV, discV, xferV, fileV, localV,
                 bwV, taskV, histV, shouldStop>>

NetExit ==
  /\ NetRunning /\ netPc = "exit"
  /\ netAlive' = "deleted"
  /\ netPc' = "gone"
  /\ UNCHANGED <<peerV, codecV, scriptV, uiV, discV, xferV, fileV, localV,
                 bwV, dispPc, dispAlive, exitPc, stateMutex, renderingMutex,
                 wifiOn, entered, histV, shouldStop>>

(***************************************************************************)
(* listenForDiscovery, lines 249-362.                                      *)
(***************************************************************************)

LdStart ==
  /\ NetRunning /\ netPc = "ld_start"
  /\ bcastIdx' = 0
  /\ netPc' = IF shouldStop THEN "delay" ELSE "ld_bcast"
  /\ UNCHANGED <<peerV, codecV, scriptV, uiV, discV, xferV, fileV,
                 currentState, message, connected, bwV, taskV, histV,
                 shouldStop>>

\* line 255: the test between two broadcasts
LdBroadcastCheck ==
  /\ NetRunning /\ netPc = "ld_bcast"
  /\ netPc' = IF bcastIdx = Len(UDP_PORTS) THEN "ld_wait"
              ELSE IF shouldStop THEN "delay"
              ELSE "ld_send"
  /\ UNCHANGED <<peerV, codecV, scriptV, uiV, discV, xferV, fileV, localV,
                 bwV, taskV, histV, shouldStop>>

\* lines 256-258: one "hello" datagram
LdBroadcastSend ==
  /\ NetRunning /\ netPc = "ld_send"
  /\ NetIO
  /\ bcastIdx' = bcastIdx + 1
  /\ netPc' = "ld_bcast"
  /\ UNCHANGED <<peerV, codecV, scriptV, uiV, discV, xferV, fileV,
                 currentState, message, connected, bwV, taskV, tcpTx,
                 completions, drained, droppedInTransfer, unlockedStateRead,
                 droppedIdle, shouldStop>>

\* lines 262-264: the wait ends after ten slices or when shouldStop is set
LdWait ==
  /\ NetRunning /\ netPc = "ld_wait"
  /\ netPc' = "ld_poll"
  /\ UNCHANGED <<peerV, codecV, scriptV, uiV, discV, xferV, fileV, localV,
                 bwV, taskV, histV, shouldStop>>

\* lines 277-324: the ports and the host name a reply gives; raised is an
\* exception of std::stoi
PeerAddress == <<"1", "0", ".", "0", ".", "0", ".", "2">>

ParseReply(response, port, altPort, hostname) ==
  LET onPos == CFind(response, <<"(", "o", "n", " ">>, 0)
      closePos == CFind(response, <<")">>, 0)
      semiPos == CFind(response, <<";">>, 0)
      commaPos == IF semiPos = NPOS THEN NPOS ELSE CFind(response, <<",">>, semiPos)
      hasComma == commaPos # NPOS /\ commaPos > semiPos
      altPortStr == CFrom(response, commaPos + 1)
      altEnd == LeadingDigits(altPortStr)
      alt == stoi(SubSeq(altPortStr, 1, altEnd))
      hasAlt == hasComma /\ altEnd > 0
      portStr == SkipBlanks(IF hasComma
                            THEN CSubstr(response, semiPos + 1, commaPos - semiPos - 1)
                            ELSE CFrom(response, semiPos + 1))
      main == stoi(portStr)
      hasMain == portStr # <<>>
      hasName == onPos # NPOS /\ closePos # NPOS /\ closePos > onPos + 4
      name == IF semiPos # NPOS /\ hasName
              THEN CSubstr(response, onPos + 4, closePos - onPos - 4)
              ELSE hostname
  IN  IF semiPos # NPOS /\ ((hasAlt /\ alt.status # "ok") \/ (hasMain /\ main.status # "ok"))
      THEN [raised |-> TRUE, port |-> port, altPort |-> altPort, hostname |-> hostname]
      ELSE [raised |-> FALSE,
            port |-> IF semiPos # NPOS /\ hasMain THEN main.value % 65536 ELSE port,
            altPort |-> IF semiPos # NPOS /\ hasAlt THEN alt.value % 65536 ELSE altPort,
            hostname |-> IF name = <<>> THEN PeerAddress ELSE name]

\* lines 267-333
LdPoll ==
  /\ NetRunning /\ netPc = "ld_poll"
  /\ NetIO
  /\ IF udpReply = <<>> \/ ~udpOpen
     THEN /\ netPc' = "delay"
          /\ udpReply' = udpReply
          /\ crashed' = crashed
          /\ state' = state /\ updateRequired' = updateRequired
          /\ connected' = connected
          /\ calibrePort' = calibrePort /\ calibreAltPort' = calibreAltPort
          /\ calibreHostname' = calibreHostname /\ calibreHost' = calibreHost
     ELSE LET r == ParseReply(udpReply, calibrePort, calibreAltPort, calibreHostname) IN
          /\ udpReply' = <<>>
          /\ crashed' = r.raised
          /\ calibrePort' = r.port
          /\ calibreAltPort' = r.altPort
          /\ calibreHostname' = r.hostname
          /\ calibreHost' = PeerAddress
          /\ connected' = FALSE
          /\ IF r.port > 0 /\ ~r.raised
             THEN SetState("CONNECTING") /\ netPc' = "ld_main"
             ELSE state' = state /\ updateRequired' = updateRequired /\ netPc' = "delay"
  /\ UNCHANGED <<wire, tcpRx, tcpConnected, udpOpen, cuts, replies,
                 recvBuffer, returned, capHit, scriptV, errorMessage, xferV,
                 fileV, currentState, message, bcastIdx, bwV, taskV, tcpTx,
                 completions, drained, droppedInTransfer, unlockedStateRead,
                 droppedIdle, shouldStop>>

\* line 337 with the alternative port tried whenever there is one
LdConnectMainThenAlways ==
  /\ NetRunning /\ netPc = "ld_main"
  /\ NetIO
  /\ \E ok \in BOOLEAN :
       /\ connected' = ok
       /\ tcpConnected' = ok
       /\ netPc' = IF calibreAltPort > 0 THEN "ld_alt" ELSE "ld_done"
  /\ UNCHANGED <<wire, tcpRx, udpOpen, udpReply, cuts, replies, codecV,
                 scriptV, uiV, discV, xferV, fileV, currentState, message,
                 bcastIdx, bwV, taskV, tcpTx, completions, drained,
                 droppedInTransfer, unlockedStateRead, droppedIdle,
                 shouldStop>>

\* line 337: tcpClient.connect to the main port
LdConnectMain ==
  /\ NetRunning /\ netPc = "ld_main"
  /\ NetIO
  /\ \E ok \in BOOLEAN :
       /\ connected' = ok
       /\ tcpConnected' = ok
       /\ netPc' = IF ~ok /\ calibreAltPort > 0 THEN "ld_alt" ELSE "ld_done"
  /\ UNCHANGED <<wire, tcpRx, udpOpen, udpReply, cuts, replies, codecV,
                 scriptV, uiV, discV, xferV, fileV, currentState, message,
                 bcastIdx, bwV, taskV, tcpTx, completions, drained,
                 droppedInTransfer, unlockedStateRead, droppedIdle,
                 shouldStop>>

\* lines 342-347: tcpClient.connect to the alternative port
LdConnectAlt ==
  /\ NetRunning /\ netPc = "ld_alt"
  /\ NetIO
  /\ \E ok \in BOOLEAN :
       /\ connected' = ok
       /\ tcpConnected' = ok
  /\ netPc' = "ld_done"
  /\ UNCHANGED <<wire, tcpRx, udpOpen, udpReply, cuts, replies, codecV,
                 scriptV, uiV, discV, xferV, fileV, currentState, message,
                 bcastIdx, bwV, taskV, tcpTx, completions, drained,
                 droppedInTransfer, unlockedStateRead, droppedIdle,
                 shouldStop>>

\* lines 349-358 with a successful connect that goes straight to RECEIVING
LdDoneSkipsWaiting ==
  /\ NetRunning /\ netPc = "ld_done"
  /\ IF connected
     THEN /\ SetState("RECEIVING")
          /\ calibrePort' = calibrePort /\ calibreAltPort' = calibreAltPort
     ELSE /\ SetState("DISCOVERING")
          /\ calibrePort' = 0 /\ calibreAltPort' = 0
  /\ netPc' = "delay"
  /\ UNCHANGED <<peerV, codecV, scriptV, errorMessage, calibreHostname,
                 calibreHost, xferV, fileV, localV, bwV, taskV, histV,
                 shouldStop>>

\* lines 349-358
LdDone ==
  /\ NetRunning /\ netPc = "ld_done"
  /\ IF connected
     THEN /\ SetState("WAITING")
          /\ calibrePort' = calibrePort /\ calibreAltPort' = calibreAltPort
     ELSE /\ SetState("DISCOVERING")
          /\ calibrePort' = 0 /\ calibreAltPort' = 0
  /\ netPc' = "delay"
  /\ UNCHANGED <<peerV, codecV, scriptV, errorMessage, calibreHostname,
                 calibreHost, xferV, fileV, localV, bwV, taskV, histV,
                 shouldStop>>

(***************************************************************************)
(* handleTcpClient, lines 364-405, and handleCommand, lines 516-565, with  *)
(* the handlers that answer at once.  The fixed texts of the answers are   *)
(* shortened: the model keeps which answer it is, not its fields.          *)
(***************************************************************************)
EmptyObject == Str(<<"{", "}">>)

ResponseData ==
  [capabilities |-> Str(<<"{", "c", "a", "p", "s", "}">>),
   deviceInfo |-> Str(<<"{", "i", "n", "f", "o", "}">>),
   freeSpace |-> Str(<<"{", "f", "r", "e", "e", "}">>),
   bookCount |-> Str(<<"{", "c", "o", "u", "n", "t", "}">>),
   invalidBook |-> Str(<<"{", "i", "n", "v", "a", "l", "i", "d", "}">>),
   createFailed |-> Str(<<"{", "c", "r", "e", "a", "t", "e", "}">>)]

MessageKindOne ==
  <<Q, "m", "e", "s", "s", "a", "g", "e", "K", "i", "n", "d", Q, ":", "1">>
EjectingTrue == <<Q, "e", "j", "e", "c", "t", "i", "n", "g", Q, ":", "t", "r", "u", "e">>

\* lines 365-374 with a lost connection that starts the discovery again
TcpStartRediscovers ==
  /\ NetRunning /\ netPc = "tcp_start"
  /\ IF ~tcpConnected
     THEN SetState("DISCOVERING") /\ netPc' = "delay"
     ELSE /\ state' = state /\ updateRequired' = updateRequired
          /\ netPc' = IF inBinaryMode THEN "rb_start" ELSE "tcp_read"
  /\ UNCHANGED <<peerV, codecV, scriptV, errorMessage, discV, xferV, fileV,
                 localV, bwV, taskV, histV, shouldStop>>

\* lines 365-374
TcpStart ==
  /\ NetRunning /\ netPc = "tcp_start"
  /\ IF ~tcpConnected
     THEN SetState("DISCONNECTED") /\ netPc' = "delay"
     ELSE /\ state' = state /\ updateRequired' = updateRequired
          /\ netPc' = IF inBinaryMode THEN "rb_start" ELSE "tcp_read"
  /\ UNCHANGED <<peerV, codecV, scriptV, errorMessage, discV, xferV, fileV,
                 localV, bwV, taskV, histV, shouldStop>>

\* lines 376-399: readJsonMessage, then the opcode and the data of the message
TcpRead ==
  /\ NetRunning /\ netPc = "tcp_read"
  /\ LET r == readJsonMessage(recvBuffer, tcpRx)
         m == ParseMessage(Chars(r.message))
     IN /\ recvBuffer' = r.buf
        /\ tcpRx' = Drop(tcpRx, r.taken)
        /\ returned' = IF r.ret THEN Append(returned, r.message) ELSE returned
        /\ capHit' = (capHit \/ OverLimit(recvBuffer, tcpRx))
        /\ ioAfterStop' = (ioAfterStop \/ (shouldStop /\ r.taken > 0))
        /\ IF r.ret /\ m.found
           THEN /\ crashed' = (m.opcode.status # "ok")
                /\ message' = [opcode |-> m.opcode.value, data |-> m.data]
                /\ netPc' = "dispatch"
           ELSE /\ crashed' = r.raised
                /\ message' = message
                /\ netPc' = "delay"
  /\ UNCHANGED <<wire, tcpConnected, udpOpen, udpReply, cuts, replies,
                 scriptV, uiV, discV, xferV, fileV, currentState, connected,
                 bcastIdx, bwV, taskV, tcpTx, completions, drained,
                 droppedInTransfer, unlockedStateRead, droppedIdle,
                 shouldStop>>

\* lines 386-390 and the handlers of lines 516-626 and 742-763, SEND_BOOK aside:
\* the state and the error message a command sets ("" for none) and its answer
CommandEffect(opcode, data) ==
  LET Effect(st, err, op, d) == [state |-> st, error |-> err, opcode |-> op, data |-> d] IN
  IF opcode < 0 \/ opcode >= OpCode.ERROR THEN Effect("", "", OpCode.OK, EmptyObject)
  ELSE IF opcode = OpCode.GET_INITIALIZATION_INFO
       THEN Effect("WAITING", "", OpCode.OK, ResponseData.capabilities)
  ELSE IF opcode = OpCode.GET_DEVICE_INFORMATION
       THEN Effect("", "", OpCode.OK, ResponseData.deviceInfo)
  ELSE IF opcode \in {OpCode.FREE_SPACE, OpCode.TOTAL_SPACE}
       THEN Effect("", "", OpCode.OK, ResponseData.freeSpace)
  ELSE IF opcode = OpCode.GET_BOOK_COUNT
       THEN Effect("", "", OpCode.OK, ResponseData.bookCount)
  ELSE IF opcode = OpCode.DISPLAY_MESSAGE
       THEN IF CFind(data, MessageKindOne, 0) # NPOS
            THEN Effect("ERROR", "Password required", OpCode.OK, EmptyObject)
            ELSE Effect("", "", OpCode.OK, EmptyObject)
  ELSE IF opcode = OpCode.NOOP
       THEN IF CFind(data, EjectingTrue, 0) # NPOS
            THEN Effect("DISCONNECTED", "", OpCode.NOOP, EmptyObject)
            ELSE Effect("", "", OpCode.NOOP, EmptyObject)
  ELSE Effect("", "", OpCode.OK, EmptyObject)

Dispatch ==
  /\ NetRunning /\ netPc = "dispatch"
  /\ message.opcode # OpCode.SEND_BOOK
  /\ LET e == CommandEffect(message.opcode, message.data) IN
       /\ state' = IF e.state = "" THEN state ELSE e.state
       /\ updateRequired' = (updateRequired \/ e.state # "")
       /\ errorMessage' = IF e.error = "" THEN errorMessage ELSE e.error
       /\ sendJsonResponse(e.opcode, e.data)
  /\ netPc' = "delay"
  /\ UNCHANGED <<peerV, codecV, scriptV, discV, xferV, fileV, localV, bwV,
                 taskV, completions, drained, droppedInTransfer,
                 unlockedStateRead, droppedIdle, shouldStop>>

(***************************************************************************)
(* handleSendBook, lines 628-740.  The file name is left out: the code     *)
(* that cleans it is not part of this file, and one file is written at a   *)
(* time.                                                                   *)
(***************************************************************************)

\* lines 628-708
HandleSendBook ==
  /\ NetRunning /\ netPc = "dispatch"
  /\ message.opcode = OpCode.SEND_BOOK
  /\ LET lpath == ExtractLpath(message.data)
         length == ExtractLength(message.data)
     IN IF lpath = <<>> \/ length = 0
        THEN /\ sendJsonResponse(OpCode.ERROR, ResponseData.invalidBook)
             /\ currentFileSize' = currentFileSize /\ bytesReceived' = bytesReceived
             /\ state' = state /\ updateRequired' = updateRequired
             /\ netPc' = "delay"
        ELSE /\ currentFileSize' = length
             /\ bytesReceived' = 0
             /\ SetState("RECEIVING")
             /\ tcpTx' = tcpTx /\ ioAfterStop' = ioAfterStop
             /\ netPc' = "sb_open"
  /\ UNCHANGED <<peerV, codecV, scriptV, errorMessage, discV, inBinaryMode,
                 binaryBytesRemaining, fileV, localV, bwV, taskV,
                 completions, drained, droppedInTransfer, unlockedStateRead,
                 droppedIdle, shouldStop>>

\* lines 710-717: SdMan.openFileForWrite gives a new, empty file or fails
SbOpen ==
  /\ NetRunning /\ netPc = "sb_open"
  /\ \E ok \in BOOLEAN :
       IF ok
       THEN /\ currentFile' = TRUE
            /\ openFailed' = openFailed
            /\ disk' = <<>>
            /\ state' = state /\ updateRequired' = updateRequired
            /\ errorMessage' = errorMessage
            /\ tcpTx' = tcpTx /\ ioAfterStop' = ioAfterStop
            /\ netPc' = "sb_init"
       ELSE /\ currentFile' = FALSE
            /\ openFailed' = TRUE
            /\ disk' = disk
            /\ setError("Failed to create file")
            /\ sendJsonResponse(OpCode.ERROR, ResponseData.createFailed)
            /\ netPc' = "delay"
  /\ UNCHANGED <<peerV, codecV, scriptV, discV, xferV, writeBuffer,
                 currentWriteFile, writeFailed, probe, localV, bwV, taskV,
                 completions, drained, droppedInTransfer, unlockedStateRead,
                 droppedIdle, shouldStop>>

\* lines 720-721
SbInit ==
  /\ NetRunning /\ netPc = "sb_init"
  /\ currentWriteFile' = TRUE
  /\ writeBuffer' = <<>>
  /\ netPc' = "sb_ack"
  /\ UNCHANGED <<peerV, codecV, scriptV, uiV, discV, xferV, currentFile,
                 disk, writeFailed, openFailed, probe, localV, bwV, taskV,
                 histV, shouldStop>>

\* line 724
SbAck ==
  /\ NetRunning /\ netPc = "sb_ack"
  /\ sendJsonResponse(OpCode.OK, EmptyObject)
  /\ netPc' = "sb_binary"
  /\ UNCHANGED <<peerV, codecV, scriptV, uiV, discV, xferV, fileV, localV,
                 bwV, taskV, completions, drained, droppedInTransfer,
                 unlockedStateRead, droppedIdle, shouldStop>>

\* lines 727-733: binary mode, and the call of bufferedWrite on what is buffered
SbBinary ==
  /\ NetRunning /\ netPc = "sb_binary"
  /\ inBinaryMode' = TRUE
  /\ binaryBytesRemaining' = currentFileSize
  /\ IF recvBuffer # <<>>
     THEN /\ chunk' = Min(Size(recvBuffer), currentFileSize)
          /\ bwData' = Take(recvBuffer, Min(Size(recvBuffer), currentFileSize))
          /\ bwRet' = "sb_drained"
          /\ bwOk' = TRUE
          /\ netPc' = "bw_loop"
     ELSE /\ UNCHANGED bwV
          /\ netPc' = "delay"
  /\ UNCHANGED <<peerV, codecV, scriptV, uiV, discV, currentFileSize,
                 bytesReceived, fileV, localV, taskV, histV, shouldStop>>

\* lines 733-738 with the bytes counted as received and still counted as remaining
SbDrainedKeepsRemaining ==
  /\ NetRunning /\ netPc = "sb_drained"
  /\ IF bwOk
     THEN /\ bytesReceived' = bytesReceived + chunk
          /\ binaryBytesRemaining' = binaryBytesRemaining
          /\ recvBuffer' = Drop(recvBuffer, chunk)
          /\ updateRequired' = TRUE
          /\ drained' = chunk
     ELSE UNCHANGED <<bytesReceived, binaryBytesRemaining, recvBuffer, updateRequired,
                      drained>>
  /\ netPc' = "delay"
  /\ UNCHANGED <<peerV, returned, capHit, crashed, scriptV, state,
                 errorMessage, discV, currentFileSize, inBinaryMode, fileV,
                 localV, bwV, taskV, tcpTx, completions, ioAfterStop,
                 droppedInTransfer, unlockedStateRead, droppedIdle,
                 shouldStop>>

\* lines 733-738: after bufferedWrite
SbDrained ==
  /\ NetRunning /\ netPc = "sb_drained"
  /\ IF bwOk
     THEN /\ bytesReceived' = bytesReceived + chunk
          /\ binaryBytesRemaining' = binaryBytesRemaining - chunk
          /\ recvBuffer' = Drop(recvBuffer, chunk)
          /\ updateRequired' = TRUE
          /\ drained' = chunk
     ELSE UNCHANGED <<bytesReceived, binaryBytesRemaining, recvBuffer, updateRequired,
                      drained>>
  /\ netPc' = "delay"
  /\ UNCHANGED <<peerV, returned, capHit, crashed, scriptV, state,
                 errorMessage, discV, currentFileSize, inBinaryMode, fileV,
                 localV, bwV, taskV, tcpTx, completions, ioAfterStop,
                 droppedInTransfer, unlockedStateRead, droppedIdle,
                 shouldStop>>

(***************************************************************************)
(* bufferedWrite, lines 40-57: one turn of its loop, and the flush of a    *)
(* full buffer.                                                            *)
(***************************************************************************)

\* lines 41-50
BwLoop ==
  /\ NetRunning /\ netPc = "bw_loop"
  /\ IF bwData = <<>>
     THEN /\ netPc' = bwRet
          /\ UNCHANGED <<writeBuffer, bwData>>
     ELSE LET toCopy == Min(WRITE_BUFFER_SIZE - Size(writeBuffer), Size(bwData)) IN
          /\ writeBuffer' = Cat(writeBuffer, Take(bwData, toCopy))
          /\ bwData' = Drop(bwData, toCopy)
          /\ netPc' = IF Size(writeBuffer) + toCopy >= WRITE_BUFFER_SIZE
                      THEN "bw_flush" ELSE "bw_loop"
  /\ UNCHANGED <<peerV, codecV, scriptV, uiV, discV, xferV, currentWriteFile,
                 currentFile, disk, writeFailed, openFailed, probe, localV,
                 bwRet, bwOk, chunk, taskV, histV, shouldStop>>

\* lines 51-53
BwFlush ==
  /\ NetRunning /\ netPc = "bw_flush"
  /\ \E full \in BOOLEAN :
       LET f == flushWriteBuffer(full) IN
       /\ writeBuffer' = f.writeBuffer
       /\ disk' = f.disk
       /\ writeFailed' = (writeFailed \/ ~f.ok)
       /\ bwOk' = f.ok
       /\ netPc' = IF f.ok THEN "bw_loop" ELSE bwRet
  /\ UNCHANGED <<peerV, codecV, scriptV, uiV, discV, xferV, currentWriteFile,
                 currentFile, openFailed, probe, localV, bwData, bwRet,
                 chunk, taskV, histV, shouldStop>>

(***************************************************************************)
(* receiveBinaryData, lines 765-818.  tcpClient.read gives the bytes that  *)
(* are waiting, up to the count asked for.                                 *)
(***************************************************************************)

\* lines 766-777
RbStart ==
  /\ NetRunning /\ netPc = "rb_start"
  /\ IF tcpRx # <<>>
     THEN /\ netPc' = "rb_read"
          /\ UNCHANGED <<writeBuffer, disk, writeFailed, currentWriteFile, currentFile,
                         inBinaryMode, uiV>>
     ELSE /\ netPc' = "delay"
          /\ IF tcpConnected
             THEN UNCHANGED <<writeBuffer, disk, writeFailed, currentWriteFile,
                              currentFile, inBinaryMode, uiV>>
             ELSE \E full \in BOOLEAN :
                    LET f == flushWriteBuffer(full) IN
                    /\ writeBuffer' = f.writeBuffer
                    /\ disk' = f.disk
                    /\ writeFailed' = (writeFailed \/ ~f.ok)
                    /\ currentWriteFile' = FALSE
                    /\ currentFile' = FALSE
                    /\ inBinaryMode' = FALSE
                    /\ setError("Transfer interrupted")
  /\ UNCHANGED <<peerV, codecV, scriptV, discV, currentFileSize,
                 bytesReceived, binaryBytesRemaining, openFailed, probe,
                 localV, bwV, taskV, histV, shouldStop>>

\* lines 780-789 with a read that asks for a full buffer whatever is still due
RbReadIgnoresRemaining ==
  /\ NetRunning /\ netPc = "rb_read"
  /\ LET toRead == WRITE_BUFFER_SIZE
         bytesRead == Min(toRead, Size(tcpRx))
     IN /\ ioAfterStop' = (ioAfterStop \/ shouldStop)
        /\ tcpRx' = Drop(tcpRx, bytesRead)
        /\ IF bytesRead > 0
           THEN /\ chunk' = bytesRead
                /\ bwData' = Take(tcpRx, bytesRead)
                /\ bwRet' = "rb_written"
                /\ bwOk' = TRUE
                /\ netPc' = "bw_loop"
           ELSE /\ UNCHANGED bwV
                /\ netPc' = "delay"
  /\ UNCHANGED <<wire, tcpConnected, udpOpen, udpReply, cuts, replies,
                 codecV, scriptV, uiV, discV, xferV, fileV, localV, taskV,
                 tcpTx, completions, drained, droppedInTransfer,
                 unlockedStateRead, droppedIdle, shouldStop>>

\* lines 780-789: the read, and the call of bufferedWrite
RbRead ==
  /\ NetRunning /\ netPc = "rb_read"
  /\ LET toRead == Min(WRITE_BUFFER_SIZE, binaryBytesRemaining)
         bytesRead == Min(toRead, Size(tcpRx))
     IN /\ ioAfterStop' = (ioAfterStop \/ shouldStop)
        /\ tcpRx' = Drop(tcpRx, bytesRead)
        /\ IF bytesRead > 0
           THEN /\ chunk' = bytesRead
                /\ bwData' = Take(tcpRx, bytesRead)
                /\ bwRet' = "rb_written"
                /\ bwOk' = TRUE
                /\ netPc' = "bw_loop"
           ELSE /\ UNCHANGED bwV
                /\ netPc' = "delay"
  /\ UNCHANGED <<wire, tcpConnected, udpOpen, udpReply, cuts, replies,
                 codecV, scriptV, uiV, discV, xferV, fileV, localV, taskV,
                 tcpTx, completions, drained, droppedInTransfer,
                 unlockedStateRead, droppedIdle, shouldStop>>

\* lines 789-816 without the last flush of a transfer
RbWrittenNoLastFlush ==
  /\ NetRunning /\ netPc = "rb_written"
  /\ netPc' = "delay"
  /\ IF ~bwOk
     THEN /\ \E full \in BOOLEAN :
               LET f == flushWriteBuffer(full) IN
               /\ writeBuffer' = f.writeBuffer
               /\ disk' = f.disk
               /\ writeFailed' = (writeFailed \/ ~f.ok)
          /\ currentWriteFile' = FALSE
          /\ currentFile' = FALSE
          /\ inBinaryMode' = FALSE
          /\ setError("Write error")
          /\ UNCHANGED <<bytesReceived, binaryBytesRemaining, tcpTx, ioAfterStop,
                         completions>>
     ELSE /\ bytesReceived' = bytesReceived + chunk
          /\ binaryBytesRemaining' = binaryBytesRemaining - chunk
          /\ errorMessage' = errorMessage
          /\ IF binaryBytesRemaining - chunk = 0
             THEN /\ UNCHANGED <<writeBuffer, disk, writeFailed>>
                  /\ currentWriteFile' = FALSE
                  /\ currentFile' = FALSE
                  /\ inBinaryMode' = FALSE
                  /\ SetState("WAITING")
                  /\ sendJsonResponse(OpCode.OK, EmptyObject)
                  /\ completions' = completions + 1
             ELSE /\ updateRequired' = TRUE
                  /\ UNCHANGED <<writeBuffer, disk, writeFailed, currentWriteFile,
                                 currentFile, inBinaryMode, state, tcpTx, ioAfterStop,
                                 completions>>
  /\ UNCHANGED <<peerV, codecV, scriptV, discV, currentFileSize, openFailed,
                 probe, localV, bwV, taskV, drained, droppedInTransfer,
                 unlockedStateRead, droppedIdle, shouldStop>>

\* lines 789-816: after bufferedWrite
RbWritten ==
  /\ NetRunning /\ netPc = "rb_written"
  /\ netPc' = "delay"
  /\ IF ~bwOk
     THEN /\ \E full \in BOOLEAN :
               LET f == flushWriteBuffer(full) IN
               /\ writeBuffer' = f.writeBuffer
               /\ disk' = f.disk
               /\ writeFailed' = (writeFailed \/ ~f.ok)
          /\ currentWriteFile' = FALSE
          /\ currentFile' = FALSE
          /\ inBinaryMode' = FALSE
          /\ setError("Write error")
          /\ UNCHANGED <<bytesReceived, binaryBytesRemaining, tcpTx, ioAfterStop,
                         completions>>
     ELSE /\ bytesReceived' = bytesReceived + chunk
          /\ binaryBytesRemaining' = binaryBytesRemaining - chunk
          /\ errorMessage' = errorMessage
          /\ IF binaryBytesRemaining - chunk = 0
             THEN /\ \E full \in BOOLEAN :
                       LET f == flushWriteBuffer(full) IN
                       /\ writeBuffer' = f.writeBuffer
                       /\ disk' = f.disk
                       /\ writeFailed' = (writeFailed \/ ~f.ok)
                  /\ currentWriteFile' = FALSE
                  /\ currentFile' = FALSE
                  /\ inBinaryMode' = FALSE
                  /\ SetState("WAITING")
                  /\ sendJsonResponse(OpCode.OK, EmptyObject)
                  /\ completions' = completions + 1
             ELSE /\ updateRequired' = TRUE
                  /\ UNCHANGED <<writeBuffer, disk, writeFailed, currentWriteFile,
                                 currentFile, inBinaryMode, state, tcpTx, ioAfterStop,
                                 completions>>
  /\ UNCHANGED <<peerV, codecV, scriptV, discV, currentFileSize, openFailed,
                 probe, localV, bwV, taskV, drained, droppedInTransfer,
                 unlockedStateRead, droppedIdle, shouldStop>>

(***************************************************************************)
(* The peer of a session: it answers a broadcast while the network task    *)
(* waits for the answer (lines 262-264), it sends a SEND_BOOK              *)
(* frame followed by the bytes of the book and perhaps by a NOOP frame,    *)
(* and it may drop the connection at any time.                             *)
(***************************************************************************)
MaxReplies == 1

Replies ==
  { <<"c", " ", "(", "o", "n", " ", "h", ")", ";", "9", "0", ",", "9", "1">>,
    <<"h", "i">>,
    <<";", "p">> }

\* replies to the broadcast when discovery is looked at on its own: with a
\* host name and two ports, with a main port only, with an alternative port
\* only, without ';', with nothing after ';', and with a port that is no number
ReplyFull == <<"c", " ", "(", "o", "n", " ", "h", ")", ";", "9", "0", ",", "9", "1">>
ReplyShort == <<";", "9", "0">>
ReplyAltOnly == <<"c", ";", ",", "9", "1">>
ReplyNoSemicolon == <<"h", "i">>
ReplyEmptyPort == <<";">>
ReplyNotNumeric == <<";", "p">>

DiscoveryReplies ==
  {ReplyFull, ReplyShort, ReplyAltOnly, ReplyNoSemicolon, ReplyEmptyPort, ReplyNotNumeric}

BookLengths == {2, WRITE_BUFFER_SIZE, WRITE_BUFFER_SIZE + 1, 2 * WRITE_BUFFER_SIZE + 5}

SendBookBody(len) ==
  Str(<<"[", "8", ",", "{">> \o KeyLpath \o <<":", Q, "d", "/", "b", Q, ",">>
      \o KeyLength \o <<":">> \o DecDigits(len) \o <<"}", "]">>)

NoopBody == Str(<<"[", "1", "2", ",", "{", "}", "]">>)

Book(len) == Run(BookByte, len)

\* commands in front of the book: GET_INITIALIZATION_INFO, a DISPLAY_MESSAGE
\* that reports a password error, and a NOOP that announces the ejection
Preludes ==
  { Str(<<"[", "9", ",", "{", "}", "]">>),
    Str(<<"[", "1", "7", ",", "{">> \o MessageKindOne \o <<"}", "]">>),
    Str(<<"[", "1", "2", ",", "{">> \o EjectingTrue \o <<"}", "]">>) }

InitSession ==
  /\ onEnter
  /\ tcpConnected = FALSE
  /\ udpReply = <<>>
  /\ tcpRx = <<>>
  /\ cuts = MaxCuts
  /\ replies = MaxReplies
  /\ scenario = "session"
  /\ \/ \E len \in BookLengths, tail \in {<<>>, <<NoopBody>>} :
          /\ sentFrames = <<SendBookBody(len)>> \o tail
          /\ wire = Cat(Frame(SendBookBody(len)),
                        Cat(Book(len), IF tail = <<>> THEN <<>> ELSE Frame(tail[1])))
     \/ \E first \in Preludes :
          /\ sentFrames = <<first, SendBookBody(2)>>
          /\ wire = Cat(Frame(first), Cat(Frame(SendBookBody(2)), Book(2)))

PeerReply ==
  /\ ~crashed
  /\ udpOpen /\ udpReply = <<>>
  /\ netPc = "ld_wait"
  /\ replies > 0
  /\ replies' = replies - 1
  /\ \E r \in (IF scenario = "discovery" THEN DiscoveryReplies ELSE Replies) :
       udpReply' = r
  /\ UNCHANGED <<wire, tcpRx, tcpConnected, udpOpen, cuts, codecV, scriptV,
                 uiV, discV, xferV, fileV, localV, bwV, taskV, histV, netPc,
                 shouldStop>>

ConnectionDrop ==
  /\ ~crashed
  /\ tcpConnected
  /\ tcpConnected' = FALSE
  /\ wire' = <<>>
  /\ tcpRx' = <<>>
  /\ droppedInTransfer' =
       (droppedInTransfer
          \/ (state = "RECEIVING" /\ inBinaryMode /\ binaryBytesRemaining > 0
                /\ netPc \in {"delay", "loop", "lock", "check"}))
  /\ droppedIdle' =
       (droppedIdle
          \/ (state = "WAITING" /\ netPc \in {"delay", "loop", "lock", "check"}))
  /\ UNCHANGED <<udpOpen, udpReply, cuts, replies, codecV, scriptV, uiV,
                 discV, xferV, fileV, localV, bwV, taskV, tcpTx, completions,
                 ioAfterStop, drained, unlockedStateRead, netPc, shouldStop>>

NetworkTask ==
  \/ NetLoop \/ NetLock \/ NetCheck \/ NetDelay
  \/ LdStart \/ LdBroadcastCheck \/ LdBroadcastSend \/ LdWait \/ LdPoll
  \/ LdConnectMain \/ LdConnectAlt \/ LdDone
  \/ TcpStart \/ TcpRead \/ Dispatch
  \/ HandleSendBook \/ SbOpen \/ SbInit \/ SbAck \/ SbBinary \/ SbDrained
  \/ BwLoop \/ BwFlush
  \/ RbStart \/ RbRead \/ RbWritten

NextSession == PeerReply \/ ConnectionDrop \/ Deliver \/ NetworkTask

SpecSession == InitSession /\ [][NextSession]_vars

(***************************************************************************)
(* displayTaskLoop, lines 199-212.                                         *)
(***************************************************************************)
DispRunning == dispAlive = "running" /\ ~crashed

\* lines 200-202 and 207: the task sleeps until there is something to do
DispLoop ==
  /\ DispRunning /\ dispPc = "loop"
  /\ shouldStop \/ updateRequired
  /\ IF shouldStop
     THEN dispPc' = "exit" /\ updateRequired' = updateRequired
     ELSE dispPc' = "take" /\ updateRequired' = FALSE
  /\ UNCHANGED <<peerV, codecV, scriptV, state, errorMessage, discV, xferV,
                 fileV, localV, bwV, netAlive, dispAlive, exitPc, stateMutex,
                 renderingMutex, wifiOn, entered, histV, netPc, shouldStop>>

\* line 203
DispTake ==
  /\ DispRunning /\ dispPc = "take"
  /\ renderingMutex = "free"
  /\ renderingMutex' = "display"
  /\ dispPc' = "render"
  /\ UNCHANGED <<peerV, codecV, scriptV, uiV, discV, xferV, fileV, localV,
                 bwV, netAlive, dispAlive, exitPc, stateMutex, wifiOn,
                 entered, histV, netPc, shouldStop>>

\* lines 203-205 with the request for a redraw withdrawn after render()
DispRenderClearsFlag ==
  /\ DispRunning /\ dispPc = "render"
  /\ unlockedStateRead' = TRUE
  /\ updateRequired' = FALSE
  /\ renderingMutex' = IF renderingMutex = "display" THEN "free" ELSE renderingMutex
  /\ dispPc' = "loop"
  /\ UNCHANGED <<peerV, codecV, scriptV, state, errorMessage, discV, xferV,
                 fileV, localV, bwV, netAlive, dispAlive, exitPc, stateMutex,
                 wifiOn, entered, tcpTx, completions, ioAfterStop, drained,
                 droppedInTransfer, droppedIdle, netPc, shouldStop>>

\* lines 204-205: render (lines 820-868) changes nothing the tasks share; it
\* reads state (line 850) without taking stateMutex
DispRender ==
  /\ DispRunning /\ dispPc = "render"
  /\ unlockedStateRead' = TRUE
  /\ renderingMutex' = IF renderingMutex = "display" THEN "free" ELSE renderingMutex
  /\ dispPc' = "loop"
  /\ UNCHANGED <<peerV, codecV, scriptV, uiV, discV, xferV, fileV, localV,
                 bwV, netAlive, dispAlive, exitPc, stateMutex, wifiOn,
                 entered, tcpTx, completions, ioAfterStop, drained,
                 droppedInTransfer, droppedIdle, netPc, shouldStop>>

\* line 211
DispExit ==
  /\ DispRunning /\ dispPc = "exit"
  /\ dispAlive' = "deleted"
  /\ dispPc' = "gone"
  /\ UNCHANGED <<peerV, codecV, scriptV, uiV, discV, xferV, fileV, localV,
                 bwV, netAlive, exitPc, stateMutex, renderingMutex, wifiOn,
                 entered, histV, netPc, shouldStop>>

DisplayTask == DispLoop \/ DispTake \/ DispRender \/ DispExit

(***************************************************************************)
(* onExit, lines 104-190, in the caller's task, one step for each stretch  *)
(* of code the two tasks can run between.                                  *)
(***************************************************************************)
ExitAt(pc) == ~crashed /\ exitPc = pc

\* eTaskGetState(task) != eDeleted, lines 146 and 164, by the handle onExit
\* kept: true of a running task.  A task that has deleted itself is eDeleted
\* until the idle task frees its control block; after that the call reads
\* freed memory and either answer can come back.
StateSeenAlive(alive) == IF alive = "running" THEN {TRUE} ELSE {TRUE, FALSE}

\* vTaskDelete(task), lines 148 and 168: "twice" is a task deleted again after
\* it has deleted itself
ForceDelete(alive) == IF alive = "running" THEN "killed" ELSE "twice"

\* how many times the activity is entered again
MaxRestarts == 1

\* line 110
ExitStop ==
  /\ ExitAt("idle")
  /\ shouldStop' = TRUE
  /\ exitPc' = "udp"
  /\ UNCHANGED <<peerV, codecV, scriptV, uiV, discV, xferV, fileV, localV,
                 bwV, netAlive, dispPc, dispAlive, stateMutex,
                 renderingMutex, wifiOn, entered, histV, netPc>>

\* line 115
ExitUdp ==
  /\ ExitAt("udp")
  /\ udpOpen' = FALSE
  /\ udpReply' = <<>>
  /\ exitPc' = "tcp"
  /\ UNCHANGED <<wire, tcpRx, tcpConnected, cuts, replies, codecV, scriptV,
                 uiV, discV, xferV, fileV, localV, bwV, netAlive, dispPc,
                 dispAlive, stateMutex, renderingMutex, wifiOn, entered,
                 histV, netPc, shouldStop>>

\* lines 118-120
ExitTcp ==
  /\ ExitAt("tcp")
  /\ tcpConnected' = FALSE
  /\ tcpRx' = <<>>
  /\ wire' = <<>>
  /\ exitPc' = "flush"
  /\ UNCHANGED <<udpOpen, udpReply, cuts, replies, codecV, scriptV, uiV,
                 discV, xferV, fileV, localV, bwV, netAlive, dispPc,
                 dispAlive, stateMutex, renderingMutex, wifiOn, entered,
                 histV, netPc, shouldStop>>

\* line 123
ExitFlush ==
  /\ ExitAt("flush")
  /\ \E full \in BOOLEAN :
       LET f == flushWriteBuffer(full) IN
       /\ writeBuffer' = f.writeBuffer
       /\ disk' = f.disk
       /\ writeFailed' = (writeFailed \/ ~f.ok)
  /\ exitPc' = "null"
  /\ UNCHANGED <<peerV, codecV, scriptV, uiV, discV, xferV, currentWriteFile,
                 currentFile, openFailed, probe, localV, bwV, netAlive,
                 dispPc, dispAlive, stateMutex, renderingMutex, wifiOn,
                 entered, histV, netPc, shouldStop>>

\* line 124
ExitNull ==
  /\ ExitAt("null")
  /\ currentWriteFile' = FALSE
  /\ exitPc' = "close"
  /\ UNCHANGED <<peerV, codecV, scriptV, uiV, discV, xferV, writeBuffer,
                 currentFile, disk, writeFailed, openFailed, probe, localV,
                 bwV, netAlive, dispPc, dispAlive, stateMutex,
                 renderingMutex, wifiOn, entered, histV, netPc, shouldStop>>

\* lines 125-129
ExitClose ==
  /\ ExitAt("close")
  /\ currentFile' = FALSE
  /\ exitPc' = "wait"
  /\ UNCHANGED <<peerV, codecV, scriptV, uiV, discV, xferV, writeBuffer,
                 currentWriteFile, disk, writeFailed, openFailed, probe,
                 localV, bwV, netAlive, dispPc, dispAlive, stateMutex,
                 renderingMutex, wifiOn, entered, histV, netPc, shouldStop>>

\* line 135: vTaskDelay(200)
ExitWait ==
  /\ ExitAt("wait")
  /\ exitPc' = "killnet"
  /\ UNCHANGED <<peerV, codecV, scriptV, uiV, discV, xferV, fileV, localV,
                 bwV, netAlive, dispPc, dispAlive, stateMutex,
                 renderingMutex, wifiOn, entered, histV, netPc, shouldStop>>

\* lines 139-146: netTask && eTaskGetState(netTask) != eDeleted
ExitCheckNetwork ==
  /\ ExitAt("killnet")
  /\ \E seen \in StateSeenAlive(netAlive) :
       exitPc' = IF seen THEN "killnet_do" ELSE "wifi"
  /\ UNCHANGED <<peerV, codecV, scriptV, uiV, discV, xferV, fileV, localV,
                 bwV, netAlive, dispPc, dispAlive, stateMutex,
                 renderingMutex, wifiOn, entered, histV, netPc, shouldStop>>

\* line 148 without the deletion of the network task
ExitDeleteNetworkLeavesTask ==
  /\ ExitAt("killnet_do")
  /\ netAlive' = netAlive
  /\ exitPc' = "wifi"
  /\ UNCHANGED <<peerV, codecV, scriptV, uiV, discV, xferV, fileV, localV,
                 bwV, dispPc, dispAlive, stateMutex, renderingMutex, wifiOn,
                 entered, histV, netPc, shouldStop>>

\* line 148: the network task is deleted wherever it is
ExitDeleteNetwork ==
  /\ ExitAt("killnet_do")
  /\ netAlive' = ForceDelete(netAlive)
  /\ exitPc' = "wifi"
  /\ UNCHANGED <<peerV, codecV, scriptV, uiV, discV, xferV, fileV, localV,
                 bwV, dispPc, dispAlive, stateMutex, renderingMutex, wifiOn,
                 entered, histV, netPc, shouldStop>>

\* lines 152-161
ExitWifi ==
  /\ ExitAt("wifi")
  /\ wifiOn' = FALSE
  /\ exitPc' = "killdisp"
  /\ UNCHANGED <<peerV, codecV, scriptV, uiV, discV, xferV, fileV, localV,
                 bwV, netAlive, dispPc, dispAlive, stateMutex,
                 renderingMutex, entered, histV, netPc, shouldStop>>

\* line 164: dispTask && eTaskGetState(dispTask) != eDeleted
ExitCheckDisplay ==
  /\ ExitAt("killdisp")
  /\ \E seen \in StateSeenAlive(dispAlive) :
       exitPc' = IF seen THEN "killdisp_do" ELSE "mutexes"
  /\ UNCHANGED <<peerV, codecV, scriptV, uiV, discV, xferV, fileV, localV,
                 bwV, netAlive, dispPc, dispAlive, stateMutex,
                 renderingMutex, wifiOn, entered, histV, netPc, shouldStop>>

\* lines 165-174 with a deletion that does not wait for renderingMutex
ExitDeleteDisplayNoMutex ==
  /\ ExitAt("killdisp_do")
  /\ dispAlive' = ForceDelete(dispAlive)
  /\ exitPc' = "mutexes"
  /\ UNCHANGED <<peerV, codecV, scriptV, uiV, discV, xferV, fileV, localV,
                 bwV, netAlive, dispPc, stateMutex, renderingMutex, wifiOn,
                 entered, histV, netPc, shouldStop>>

\* lines 165-174: the display task is deleted under renderingMutex, or the
\* wait for the mutex times out
ExitDeleteDisplay ==
  /\ ExitAt("killdisp_do")
  /\ dispAlive' = IF renderingMutex = "free" THEN ForceDelete(dispAlive) ELSE dispAlive
  /\ exitPc' = "mutexes"
  /\ UNCHANGED <<peerV, codecV, scriptV, uiV, discV, xferV, fileV, localV,
                 bwV, netAlive, dispPc, stateMutex, renderingMutex, wifiOn,
                 entered, histV, netPc, shouldStop>>

\* lines 179-187
ExitMutexes ==
  /\ ExitAt("mutexes")
  /\ renderingMutex' = "deleted"
  /\ stateMutex' = "deleted"
  /\ exitPc' = "done"
  /\ UNCHANGED <<peerV, codecV, scriptV, uiV, discV, xferV, fileV, localV,
                 bwV, netAlive, dispPc, dispAlive, wifiOn, entered, histV,
                 netPc, shouldStop>>

\* onEnter, lines 70-102, called again after onExit has returned
Reenter ==
  /\ ExitAt("done")
  /\ entered <= MaxRestarts
  /\ entered' = entered + 1
  /\ stateMutex' = "free"
  /\ renderingMutex' = "free"
  /\ state' = "DISCOVERING"
  /\ errorMessage' = ""
  /\ calibreHostname' = <<>>
  /\ calibreHost' = <<>>
  /\ calibrePort' = 0
  /\ calibreAltPort' = 0
  /\ currentFileSize' = 0
  /\ bytesReceived' = 0
  /\ inBinaryMode' = FALSE
  /\ recvBuffer' = <<>>
  /\ shouldStop' = FALSE
  /\ updateRequired' = TRUE
  /\ udpOpen' = TRUE
  /\ netPc' = "loop"
  /\ netAlive' = "running"
  /\ dispPc' = "loop"
  /\ dispAlive' = "running"
  /\ exitPc' = "idle"
  /\ currentState' = "DISCOVERING"
  /\ message' = [opcode |-> 0, data |-> <<>>]
  /\ connected' = FALSE
  /\ bcastIdx' = 0
  /\ bwData' = <<>>
  /\ bwRet' = ""
  /\ bwOk' = TRUE
  /\ chunk' = 0
  /\ UNCHANGED <<wire, tcpRx, tcpConnected, udpReply, cuts, replies,
                 returned, capHit, crashed, scriptV, binaryBytesRemaining,
                 fileV, wifiOn, histV>>

onExit ==
  \/ ExitStop \/ ExitUdp \/ ExitTcp \/ ExitFlush \/ ExitNull \/ ExitClose \/ ExitWait
  \/ ExitCheckNetwork \/ ExitDeleteNetwork \/ ExitWifi
  \/ ExitCheckDisplay \/ ExitDeleteDisplay \/ ExitMutexes

(***************************************************************************)
(* A session that the user leaves at any time: a NOOP frame, then one book *)
(* whose bytes arrive whole.                                               *)
(***************************************************************************)
InitTeardown ==
  /\ onEnter
  /\ tcpConnected = FALSE
  /\ udpReply = <<>>
  /\ tcpRx = <<>>
  /\ cuts = 0
  /\ replies = 1
  /\ scenario = "session"
  /\ sentFrames = <<NoopBody, SendBookBody(WRITE_BUFFER_SIZE + 1)>>
  /\ wire = Cat(Frame(NoopBody),
                Cat(Frame(SendBookBody(WRITE_BUFFER_SIZE + 1)), Book(WRITE_BUFFER_SIZE + 1)))

NextTeardown ==
  \/ PeerReply \/ Deliver
  \/ NetworkTask \/ NetExit
  \/ DisplayTask
  \/ onExit

SpecTeardown == InitTeardown /\ [][NextTeardown]_vars

\* the same session, entered again up to MaxRestarts times after it was left
SpecRestart == InitTeardown /\ [][NextTeardown \/ Reenter]_vars

\* the display task is a FreeRTOS task of its own (line 98): while it can take a
\* step it is scheduled again within its delay of 50 ms
SpecTeardownLive == SpecTeardown /\ WF_vars(DisplayTask)

(***************************************************************************)
(* SEND_BOOK payloads.  A payload is an object of up to four fields, in    *)
(* this order: "lpath" (left out, empty or a path), "t" (left out or a     *)
(* one-character string: a letter, a closing brace or an opening brace),   *)
(* the nested object "info" with its own "length" (left out, or in front   *)
(* of or behind the top-level "length"), and the top-level "length" (left  *)
(* out, zero or the size of the book).                                     *)
(***************************************************************************)
TopLength == 1234
NestedLength == 7

SendBookPayloads ==
  [lpath : {"none", "empty", "path"},
   t : {"none", "a", "}", "{"},
   info : {"none", "before", "after"},
   length : {"none", "zero", "size"}]

LpathField(p) ==
  IF p.lpath = "none" THEN <<>>
  ELSE <<KeyLpath \o <<":", Q>> \o (IF p.lpath = "path" THEN <<"d", "/", "b">> ELSE <<>>)
         \o <<Q>>>>

TitleField(p) ==
  IF p.t = "none" THEN <<>> ELSE <<<<Q, "t", Q, ":", Q, p.t, Q>>>>

InfoField(p, place) ==
  IF p.info # place THEN <<>>
  ELSE <<<<Q, "i", "n", "f", "o", Q, ":", "{">> \o KeyLength \o <<":">>
         \o DecDigits(NestedLength) \o <<"}">>>>

LengthField(p) ==
  IF p.length = "none" THEN <<>>
  ELSE <<KeyLength \o <<":">>
         \o DecDigits(IF p.length = "size" THEN TopLength ELSE 0)>>

PayloadFields(p) ==
  LpathField(p) \o TitleField(p) \o InfoField(p, "before") \o LengthField(p)
    \o InfoField(p, "after")

\* the fields as bytes, with a comma between two fields
RECURSIVE JoinFields(_)
JoinFields(fs) ==
  IF fs = <<>> THEN <<>>
  ELSE IF Len(fs) = 1 THEN Str(fs[1])
  ELSE Cat(Str(fs[1] \o <<",">>), JoinFields(Tail(fs)))

SendBookMessage(p) ==
  Cat(Str(<<"[", "8", ",", "{">>), Cat(JoinFields(PayloadFields(p)), Str(<<"}", "]">>)))

(***************************************************************************)
(* A session in which the peer sends one SEND_BOOK with any of these       *)
(* payloads, then the TopLength bytes of the book and a NOOP; the frames   *)
(* and the book arrive whole, and the connection stays up.                 *)
(***************************************************************************)
InitSendBook ==
  /\ onEnter
  /\ tcpConnected = FALSE
  /\ udpReply = <<>>
  /\ tcpRx = <<>>
  /\ cuts = 0
  /\ replies = MaxReplies
  /\ scenario = "session"
  /\ \E p \in SendBookPayloads :
       /\ sentFrames = <<SendBookMessage(p), NoopBody>>
       /\ wire = Cat(Frame(SendBookMessage(p)), Cat(Book(TopLength), Frame(NoopBody)))

\* the book is smaller than the write buffer, which is flushed at its end only
NextSendBook ==
  \/ PeerReply \/ Deliver
  \/ NetLoop \/ NetLock \/ NetCheck \/ NetDelay
  \/ LdStart \/ LdBroadcastCheck \/ LdBroadcastSend \/ LdWait \/ LdPoll
  \/ LdConnectMain \/ LdConnectAlt \/ LdDone
  \/ TcpStart \/ TcpRead \/ Dispatch
  \/ HandleSendBook \/ SbOpen \/ SbInit \/ SbAck \/ SbBinary \/ SbDrained
  \/ BwLoop
  \/ RbStart \/ RbRead \/ RbWritten

SpecSendBook == InitSendBook /\ [][NextSendBook]_vars

\* the payload of the SEND_BOOK that the peer sends in such a session
Sent == CHOOSE p \in SendBookPayloads : sentFrames[1] = SendBookMessage(p)

(***************************************************************************)
(* Discovery on its own: the peer answers up to MaxDiscoveryReplies        *)
(* broadcasts with any of DiscoveryReplies and sends nothing after a       *)
(* connect; the user may leave at any time, which raises shouldStop (line  *)
(* 110; the rest of onExit is left out here).                              *)
(***************************************************************************)
MaxDiscoveryReplies == 2

InitDiscovery ==
  /\ onEnter
  /\ tcpConnected = FALSE
  /\ udpReply = <<>>
  /\ tcpRx = <<>>
  /\ cuts = 0
  /\ replies = MaxDiscoveryReplies
  /\ scenario = "discovery"
  /\ sentFrames = <<>>
  /\ wire = <<>>

NetworkDiscovery ==
  \/ NetLoop \/ NetLock \/ NetCheck \/ NetDelay \/ NetExit
  \/ LdStart \/ LdBroadcastCheck \/ LdBroadcastSend \/ LdWait \/ LdPoll
  \/ LdConnectMain \/ LdConnectAlt \/ LdDone
  \/ TcpStart \/ TcpRead

NextDiscovery == PeerReply \/ ExitStop \/ NetworkDiscovery

SpecDiscovery == InitDiscovery /\ [][NextDiscovery]_vars

\* the steps of the network task from the end of one round of discovery to
\* the broadcast of the next
NextRound ==
  \/ NetLoop \/ NetLock \/ NetCheck \/ NetDelay \/ NetExit
  \/ LdDone \/ LdStart \/ LdBroadcastCheck \/ LdBroadcastSend \/ LdWait

\* the network task is a FreeRTOS task of its own (line 101) and none of
\* these steps waits for anything but the state lock, which is held briefly
SpecDiscoveryLive == SpecDiscovery /\ WF_vars(NextRound)

(***************************************************************************)
(* Commands that only get an acknowledgement: the peer sends up to         *)
(* MaxCommands frames [opcode,{}] whose opcode is below 0, 20 or above,    *)
(* far above, in range without a meaning (10) or without a handler         *)
(* (BOOK_DONE, 11), or one of SEND_BOOK_METADATA (16),                     *)
(* SET_CALIBRE_DEVICE_INFO (1), SET_CALIBRE_DEVICE_NAME (2),               *)
(* SET_LIBRARY_INFO (19) and SEND_BOOKLISTS (7).  The frames arrive whole. *)
(***************************************************************************)
MaxCommands == 2

AckOnlyOpcodes ==
  { <<"-", "1">>, <<"2", "0">>, <<"2", "5", "5">>,
    <<"9", "9", "9", "9", "9", "9", "9", "9", "9", "9", "9">>,
    <<"1", "0">>, <<"1", "1">>,
    <<"1", "6">>, <<"1">>, <<"2">>, <<"1", "9">>, <<"7">> }

CommandBody(op) == Str(<<"[">> \o op \o <<",", "{", "}", "]">>)

RECURSIVE CommandStream(_)
CommandStream(ops) ==
  IF ops = <<>> THEN <<>> ELSE Cat(Frame(CommandBody(Head(ops))), CommandStream(Tail(ops)))

InitCommands ==
  /\ onEnter
  /\ tcpConnected = FALSE
  /\ udpReply = <<>>
  /\ tcpRx = <<>>
  /\ cuts = 0
  /\ replies = MaxReplies
  /\ scenario = "session"
  /\ \E k \in 1..MaxCommands : \E ops \in [1..k -> AckOnlyOpcodes] :
       /\ sentFrames = [i \in 1..k |-> CommandBody(ops[i])]
       /\ wire = CommandStream(ops)

NextCommands ==
  \/ PeerReply \/ Deliver
  \/ NetLoop \/ NetLock \/ NetCheck \/ NetDelay
  \/ LdStart \/ LdBroadcastCheck \/ LdBroadcastSend \/ LdWait \/ LdPoll
  \/ LdConnectMain \/ LdConnectAlt \/ LdDone
  \/ TcpStart \/ TcpRead \/ Dispatch

SpecCommands == InitCommands /\ [][NextCommands]_vars

(***************************************************************************)
(* An answer read back: sendJsonResponse is called once with an opcode and *)
(* a payload, and what it writes is fed, under any split, to               *)
(* readJsonMessage with an empty buffer.  The payloads are the ones of the *)
(* handlers, an object with an array in it, and objects whose text makes   *)
(* the length one digit longer.                                            *)
(***************************************************************************)
ResponseOpcodes == {OpCode.OK, OpCode.GET_DEVICE_INFORMATION, OpCode.NOOP, OpCode.ERROR}

Padded(k) == Cat(Str(<<"{">>), Cat(Run("x", k), Str(<<"}">>)))

ResponsePayloads ==
  { EmptyObject, ResponseData.capabilities, ResponseData.deviceInfo,
    ResponseData.freeSpace, ResponseData.bookCount, ResponseData.invalidBook,
    ResponseData.createFailed,
    Str(<<"{", Q, "a", Q, ":", "[", "1", ",", "2", "]", "}">>),
    Padded(3), Padded(4), Padded(93), Padded(94), Padded(WRITE_BUFFER_SIZE) }

\* the text '[opcode,payload]'
JsonText(opcode, data) ==
  Cat(Str(<<"[">> \o DecDigits(opcode) \o <<",">>), Cat(data, Str(<<"]">>)))

InitEnvelope ==
  /\ onEnter
  /\ tcpConnected = TRUE
  /\ replies = 0
  /\ udpReply = <<>>
  /\ cuts = MaxCuts
  /\ scenario = "envelope"
  /\ wire = <<>>
  /\ tcpRx = <<>>
  /\ \E op \in ResponseOpcodes, data \in ResponsePayloads :
       sentFrames = <<[opcode |-> op, data |-> data]>>

\* sendJsonResponse(opcode, data), its bytes taken as the stream of a peer
Respond ==
  /\ ~crashed
  /\ tcpTx = <<>>
  /\ sendJsonResponse(sentFrames[1].opcode, sentFrames[1].data)
  /\ wire' = Envelope(sentFrames[1].opcode, sentFrames[1].data)
  /\ UNCHANGED <<tcpRx, tcpConnected, udpOpen, udpReply, cuts, replies,
                 codecV, scriptV, uiV, discV, xferV, fileV, localV, bwV,
                 taskV, completions, drained, droppedInTransfer,
                 unlockedStateRead, droppedIdle, netPc, shouldStop>>

NextEnvelope == Respond \/ Deliver \/ CallReadJsonMessage

SpecEnvelope == InitEnvelope /\ [][NextEnvelope]_vars

(***************************************************************************)
(* DISPLAY_MESSAGE and NOOP with a payload: the peer sends up to           *)
(* MaxMessages frames [17,payload] or [12,payload].  A payload is an       *)
(* object with the field "messageKind" (1, the password error of the       *)
(* protocol; 2; 10) or "ejecting" (true, false), written without white     *)
(* space or with a space after the colon, or the empty object.  The frames *)
(* arrive whole.                                                           *)
(***************************************************************************)
MaxMessages == 2

Field(name, sep, value) == <<"{", Q>> \o name \o <<Q>> \o sep \o value \o <<"}">>
KindName == <<"m", "e", "s", "s", "a", "g", "e", "K", "i", "n", "d">>
EjectingName == <<"e", "j", "e", "c", "t", "i", "n", "g">>

KindOne == Field(KindName, <<":">>, <<"1">>)
KindOneSpaced == Field(KindName, <<":", " ">>, <<"1">>)
KindTwo == Field(KindName, <<":">>, <<"2">>)
KindTen == Field(KindName, <<":">>, <<"1", "0">>)
Ejecting == Field(EjectingName, <<":">>, <<"t", "r", "u", "e">>)
EjectingSpaced == Field(EjectingName, <<":", " ">>, <<"t", "r", "u", "e">>)
NotEjecting == Field(EjectingName, <<":">>, <<"f", "a", "l", "s", "e">>)

MessagePayloads ==
  { <<"{", "}">>, KindOne, KindOneSpaced, KindTwo, KindTen,
    Ejecting, EjectingSpaced, NotEjecting }

\* the payloads whose messageKind is 1, and those whose ejecting is true
PasswordRequired == {KindOne, KindOneSpaced}
PeerEjecting == {Ejecting, EjectingSpaced}

MessageOpcodes == { <<"1", "7">>, <<"1", "2">> }

MessageBody(op, p) ==
  Cat(Str(<<"[">> \o op \o <<",">>), Cat(Str(p), Str(<<"]">>)))

RECURSIVE MessageStream(_)
MessageStream(ms) ==
  IF ms = <<>> THEN <<>>
  ELSE Cat(Frame(MessageBody(Head(ms)[1], Head(ms)[2])), MessageStream(Tail(ms)))

InitMessages ==
  /\ onEnter
  /\ tcpConnected = FALSE
  /\ udpReply = <<>>
  /\ tcpRx = <<>>
  /\ cuts = 0
  /\ replies = MaxReplies
  /\ scenario = "session"
  /\ \E k \in 1..MaxMessages : \E ms \in [1..k -> MessageOpcodes \X MessagePayloads] :
       /\ sentFrames = [i \in 1..k |-> MessageBody(ms[i][1], ms[i][2])]
       /\ wire = MessageStream(ms)

SpecMessages == InitMessages /\ [][NextCommands]_vars

(***************************************************************************)
(* getSDCardFreeSpace, lines 882-939.  Sizes are counted in MiB.  The card *)
(* has "free" MiB of contiguous free space: preAllocate(size) succeeds     *)
(* when size is not above it, and a preAllocate that fails reserves        *)
(* nothing.  SdMan.openFileForWrite succeeds or fails.                     *)
(***************************************************************************)
GiB == 1024

\* lines 902-916
probeSizes ==
  <<256 * GiB, 128 * GiB, 64 * GiB, 32 * GiB, 16 * GiB, 8 * GiB, 4 * GiB, 2 * GiB,
    1 * GiB, 512, 256, 128, 64>>

\* line 895
NoProbeFallback == 64 * GiB
\* line 918
MinimumFallback == 64

\* the cards tried: empty, and one MiB below, at and above each probe size
FreeSpaces ==
  {0} \cup { probeSizes[k] + d : k \in 1..Len(probeSizes), d \in {-1, 0, 1} }

ProbeAt(pc) == ~crashed /\ probe.pc = pc

\* lines 882-890: the call, on some card
ProbeCall ==
  /\ ProbeAt("idle")
  /\ \E free \in FreeSpaces, canOpen \in BOOLEAN :
       probe' = [probe EXCEPT !.pc = "open", !.free = free, !.canOpen = canOpen]
  /\ UNCHANGED <<peerV, codecV, scriptV, uiV, discV, xferV, writeBuffer,
                 currentWriteFile, currentFile, disk, writeFailed,
                 openFailed, localV, bwV, taskV, histV, netPc, shouldStop>>

\* lines 892-918
ProbeOpen ==
  /\ ProbeAt("open")
  /\ probe' = IF ~probe.canOpen
              THEN [probe EXCEPT !.pc = "done", !.result = NoProbeFallback]
              ELSE [probe EXCEPT !.pc = "loop", !.testFile = TRUE, !.exists = TRUE,
                                 !.availableSpace = MinimumFallback, !.i = 1]
  /\ UNCHANGED <<peerV, codecV, scriptV, uiV, discV, xferV, writeBuffer,
                 currentWriteFile, currentFile, disk, writeFailed,
                 openFailed, localV, bwV, taskV, histV, netPc, shouldStop>>

\* lines 920-924 with the loop left after the first candidate, taken or not
ProbeTryOnce ==
  /\ ProbeAt("loop")
  /\ LET size == probeSizes[probe.i] IN
     probe' = IF size <= probe.free
              THEN [probe EXCEPT !.pc = "truncate", !.tried = Append(@, size),
                                 !.availableSpace = size, !.reserved = size]
              ELSE [probe EXCEPT !.pc = "close", !.tried = Append(@, size)]
  /\ UNCHANGED <<peerV, codecV, scriptV, uiV, discV, xferV, writeBuffer,
                 currentWriteFile, currentFile, disk, writeFailed,
                 openFailed, localV, bwV, taskV, histV, netPc, shouldStop>>

\* lines 920-924 and 932: one round of the loop, testFile.preAllocate(size)
ProbeTry ==
  /\ ProbeAt("loop")
  /\ LET size == probeSizes[probe.i] IN
     probe' = IF size <= probe.free
              THEN [probe EXCEPT !.pc = "truncate", !.tried = Append(@, size),
                                 !.availableSpace = size, !.reserved = size]
              ELSE [probe EXCEPT !.pc = IF probe.i = Len(probeSizes) THEN "close" ELSE "loop",
                                 !.tried = Append(@, size), !.i = @ + 1]
  /\ UNCHANGED <<peerV, codecV, scriptV, uiV, discV, xferV, writeBuffer,
                 currentWriteFile, currentFile, disk, writeFailed,
                 openFailed, localV, bwV, taskV, histV, netPc, shouldStop>>

\* lines 925-931: testFile.truncate(0) and the break
ProbeTruncate ==
  /\ ProbeAt("truncate")
  /\ probe' = [probe EXCEPT !.pc = "close", !.reserved = 0]
  /\ UNCHANGED <<peerV, codecV, scriptV, uiV, discV, xferV, writeBuffer,
                 currentWriteFile, currentFile, disk, writeFailed,
                 openFailed, localV, bwV, taskV, histV, netPc, shouldStop>>

\* line 935
ProbeClose ==
  /\ ProbeAt("close")
  /\ probe' = [probe EXCEPT !.pc = "remove", !.testFile = FALSE]
  /\ UNCHANGED <<peerV, codecV, scriptV, uiV, discV, xferV, writeBuffer,
                 currentWriteFile, currentFile, disk, writeFailed,
                 openFailed, localV, bwV, taskV, histV, netPc, shouldStop>>

\* lines 936-938
ProbeRemove ==
  /\ ProbeAt("remove")
  /\ probe' = [probe EXCEPT !.pc = "done", !.exists = FALSE, !.reserved = 0,
                            !.result = probe.availableSpace]
  /\ UNCHANGED <<peerV, codecV, scriptV, uiV, discV, xferV, writeBuffer,
                 currentWriteFile, currentFile, disk, writeFailed,
                 openFailed, localV, bwV, taskV, histV, netPc, shouldStop>>

getSDCardFreeSpace ==
  \/ ProbeCall \/ ProbeOpen \/ ProbeTry \/ ProbeTruncate \/ ProbeClose \/ ProbeRemove

\* one call of getSDCardFreeSpace in a session that waits for a command
InitProbe ==
  /\ onEnter
  /\ tcpConnected = FALSE
  /\ udpReply = <<>>
  /\ tcpRx = <<>>
  /\ cuts = 0
  /\ replies = 0
  /\ scenario = "probe"
  /\ sentFrames = <<>>
  /\ wire = <<>>

SpecProbe == InitProbe /\ [][getSDCardFreeSpace]_vars


(***************************************************************************)
(* Properties of the framing codec.                                        *)
(***************************************************************************)
IsPrefix(a, b) == Len(a) <= Len(b) /\ SubSeq(b, 1, Len(a)) = a

\* Every byte of the stream has arrived and been read, and a further call of
\* readJsonMessage returns nothing and leaves the buffer as it is.
Quiescent ==
  /\ wire = <<>>
  /\ tcpRx = <<>>
  /\ \/ crashed
     \/ LET r == ParseBuffer(recvBuffer) IN ~r.ret /\ ~r.raised /\ r.buf = recvBuffer

FramesInOrder ==
  /\ IsPrefix(returned, sentFrames)
  /\ Quiescent => returned = sentFrames

\* C1 (as stated): for any stream of valid frames, under any split into socket
\* reads, the calls of readJsonMessage return exactly the frames sent, in
\* order, none lost and none duplicated.
C1_FramingAnyStream == scenario = "frames" => FramesInOrder

\* C1 (amended): the same, as long as no call finds more than 100000 bytes
\* already in recvBuffer while further bytes are available (that call clears
\* the buffer and the frames in it are lost).
C1_FramingWithinLimit == scenario = "frames" /\ ~capHit => FramesInOrder

C1_Witness ==
  /\ scenario = "frames"
  /\ ~capHit
  /\ Quiescent
  /\ Len(returned) = 2
  /\ returned = sentFrames
  /\ returned[1] # returned[2]

\* C2: from non-digit garbage followed by the frame [5,{}] and trailing bytes,
\* repeated calls of readJsonMessage discard the garbage and return [5,{}]:
\* once nothing further can happen, the frame has been returned.
C2_GarbageResync ==
  scenario = "garbage" /\ Quiescent => \E i \in 1..Len(returned) : returned[i] = BodyFreeSpace

\* C3: a length prefix above the 1000000 ceiling followed by '[' is rejected
\* without a frame being returned and without wedging the parser: every valid
\* frame that arrives afterwards is returned.  (Stated for the runs in which
\* std::stoul has not raised: a run in which it has returns no frame at all.)
C3_OversizeNotWedged == scenario = "oversize" /\ ~crashed => FramesInOrder

\* C4: recvBuffer never holds more than its limit of 100000 bytes.
C4_BufferWithinLimit == Size(recvBuffer) <= RECV_BUFFER_LIMIT

(***************************************************************************)
(* Properties of a transfer.                                               *)
(***************************************************************************)
\* the network task is between two calls of a handler
AtStepBoundary == netPc \in {"delay", "loop", "lock", "check"}

C6_CompletesWhenAllReceived ==
  /\ (AtStepBoundary /\ currentFileSize > 0 /\ bytesReceived = currentFileSize)
     => (completions = 1 /\ ~inBinaryMode /\ ~currentFile)
  /\ completions = 1 => bytesReceived = currentFileSize

\* C9: when the connection has dropped during a transfer (state RECEIVING,
\* binary mode on, bytes still to come) and the network task has left
\* RECEIVING, the file is closed, binary mode is off and the state is ERROR.
C9_DropAbortsTransfer ==
  (droppedInTransfer /\ AtStepBoundary /\ state # "RECEIVING")
  => (state = "ERROR" /\ ~inBinaryMode /\ ~currentFile)

\* C10: between two handler calls of the network task, binary mode or an
\* open file implies state RECEIVING.
C10_BinaryImpliesReceiving ==
  AtStepBoundary /\ (inBinaryMode \/ currentFile) => state = "RECEIVING"

(***************************************************************************)
(* Properties of the shutdown.                                             *)
(***************************************************************************)
\* C7: once onExit has set shouldStop, the network task issues no network
\* I/O: no UDP send or receive, no TCP connect, read or write.
C7_NoNetworkIoAfterStop == ~ioAfterStop

\* C8: when onExit has completed, the file of the transfer is not open.
C8_FileClosedAfterExit == exitPc = "done" => ~currentFile

(***************************************************************************)
(* Properties of the transfer counters, of storage failures and of the     *)
(* shared state.                                                           *)
(***************************************************************************)
\* C11: bytesReceived never exceeds currentFileSize, the declared length of
\* the transfer, and no step taken in binary mode makes it smaller.
C11_BytesReceivedBounded ==
  /\ [](bytesReceived <= currentFileSize)
  /\ [][inBinaryMode => bytesReceived' >= bytesReceived]_vars

C11_Witness ==
  /\ inBinaryMode
  /\ drained > 0
  /\ bytesReceived > WRITE_BUFFER_SIZE + drained
  /\ bytesReceived < currentFileSize
  /\ wire # <<>>

\* C12: when the file could not be opened or a write to the card has come
\* back short, and the network task is between two handler calls, the state
\* is ERROR, binary mode is off and the file is closed.
C12_StorageFailureAborts ==
  (AtStepBoundary /\ (openFailed \/ writeFailed))
  => (state = "ERROR" /\ ~inBinaryMode /\ ~currentFile)

\* C13: the shared state is read and written only by a task that holds
\* stateMutex: no task has read it without the mutex.
C13_StateAccessUnderMutex == ~unlockedStateRead

(***************************************************************************)
(* Properties of onExit and the two tasks.                                 *)
(***************************************************************************)
\* C14: recvBuffer, writeBuffer, currentWriteFile and currentFile are read
\* and written by the network task only: the steps of onExit that flush the
\* buffer, clear the pointer and close the file are taken only when the
\* network task is gone.
C14_TransferStateOwnedByNetworkTask ==
  [][(ExitFlush \/ ExitNull \/ ExitClose) => netAlive # "running"]_vars

\* C15: the two mutexes are deleted only when the network task and the
\* display task are gone.
C15_MutexesOutliveTasks ==
  (renderingMutex = "deleted" \/ stateMutex = "deleted")
  => (netAlive # "running" /\ dispAlive # "running")

\* C16: onExit deletes the display task only while the task is not inside
\* render(), and the task is inside render() only after it has taken
\* renderingMutex (which it holds until render() returns, unless the mutex
\* is deleted under it).
C16_NoDeletionMidDraw ==
  /\ [][dispAlive = "running" /\ dispAlive' = "killed" => dispPc # "render"]_vars
  /\ [](dispAlive = "running" /\ dispPc = "render" /\ renderingMutex # "deleted"
          => renderingMutex = "display")

C16_Witness ==
  /\ dispAlive = "killed"
  /\ dispPc = "take"
  /\ unlockedStateRead
  /\ exitPc = "mutexes"

(***************************************************************************)
(* Properties of the session state.                                        *)
(***************************************************************************)
StateGraph ==
  { <<"DISCOVERING", "CONNECTING">>, <<"CONNECTING", "WAITING">>,
    <<"CONNECTING", "DISCOVERING">>, <<"WAITING", "RECEIVING">>,
    <<"RECEIVING", "WAITING">> }

\* C17: every step that changes the state follows the documented graph:
\* DISCOVERING to CONNECTING, CONNECTING to WAITING or back to DISCOVERING,
\* WAITING to RECEIVING, RECEIVING to WAITING, and any state to
\* DISCONNECTED or ERROR.
C17_StateFollowsGraph ==
  [][state' # state
       => (<<state, state'>> \in StateGraph \/ state' \in {"DISCONNECTED", "ERROR"})]_vars

C17_Witness ==
  /\ completions = 1
  /\ state = "WAITING"
  /\ tcpConnected
  /\ returned # <<>>

\* C18: a connection lost while WAITING shows as DISCONNECTED when the
\* network task next enters handleTcpClient, and once the state is
\* DISCONNECTED or ERROR no step changes it.
C18_DisconnectedAndErrorAbsorbing ==
  /\ [][droppedIdle /\ netPc = "tcp_start" /\ netPc' # netPc
          => state' = "DISCONNECTED"]_vars
  /\ [](droppedIdle /\ state # "WAITING" => state = "DISCONNECTED")
  /\ [][(state = "DISCONNECTED" \/ state = "ERROR") => state' = state]_vars

C18_Witness ==
  /\ droppedIdle
  /\ state = "DISCONNECTED"
  /\ netPc = "loop"
  /\ currentState = "DISCONNECTED"

(***************************************************************************)
(* Properties of handleSendBook.                                           *)
(***************************************************************************)
\* the step in which handleSendBook reads the payload of a SEND_BOOK
SendBookStep ==
  /\ netPc = "dispatch"
  /\ message.opcode = OpCode.SEND_BOOK
  /\ netPc' # netPc

\* C19: for a payload with a path, a nested "length" and a top-level
\* "length", handleSendBook starts a transfer whose size is the top-level
\* value (1234), never the nested one (7).
C19_TopLevelLengthOnly ==
  [][SendBookStep /\ Sent.lpath = "path" /\ Sent.info # "none" /\ Sent.length = "size"
       => (netPc' = "sb_open" /\ currentFileSize' = TopLength)]_vars

\* C20: a SEND_BOOK whose payload has no "lpath" or an empty one, or no
\* top-level "length" or a zero one, is answered with the ERROR envelope and
\* leaves the state, the binary mode, the transfer counters and the write
\* target as they were.
C20_InvalidSendBookRejected ==
  [][SendBookStep /\ (Sent.lpath # "path" \/ Sent.length # "size")
       => /\ tcpTx' = Append(tcpTx, Envelope(OpCode.ERROR, ResponseData.invalidBook))
          /\ UNCHANGED <<state, inBinaryMode, binaryBytesRemaining, currentFileSize,
                         bytesReceived, currentFile, currentWriteFile, writeBuffer>>]_vars

(***************************************************************************)
(* Properties of listenForDiscovery.                                       *)
(***************************************************************************)
\* the step in which listenForDiscovery reads and parses a reply
ReplyStep ==
  /\ netPc = "ld_poll"
  /\ netPc' # netPc
  /\ udpOpen /\ udpReply # <<>>

\* C21: each reply is parsed on its own: "c (on h);90,91" gives the host name
\* h and the ports 90 and 91, ";90" gives the port 90, no alternative port
\* and the sender's address as host name, whatever came before; the host to
\* connect to is the sender's address.
C21_RepliesParsedAlone ==
  [][ReplyStep
       => /\ calibreHost' = PeerAddress
          /\ udpReply = ReplyFull
               => (calibreHostname' = <<"h">> /\ calibrePort' = 90 /\ calibreAltPort' = 91)
          /\ udpReply = ReplyShort
               => (calibreHostname' = PeerAddress /\ calibrePort' = 90
                     /\ calibreAltPort' = 0)]_vars

\* C22: a reply without ';', or with nothing or with no number after the ';',
\* gives no discovery result: no connect is tried, the state stays
\* DISCOVERING and the network task goes on to its next round.
C22_BadReplyIgnored ==
  [][ReplyStep /\ udpReply \in {ReplyNoSemicolon, ReplyEmptyPort, ReplyNotNumeric}
       => (netPc' = "delay" /\ state' = "DISCOVERING" /\ ~tcpConnected' /\ ~crashed')]_vars

\* the connects of a discovery result have both failed
ConnectFailed == netPc = "ld_done" /\ ~connected /\ ~crashed

\* C23: after a discovery result the main port is tried first, the
\* alternative port only after the main connect failed and when there is an
\* alternative port; when no connect succeeded the state goes back to
\* DISCOVERING with both ports cleared, and the network task then broadcasts
\* again unless shouldStop is raised.
C23_MainThenAlternateThenRetry ==
  /\ [][ReplyStep /\ state' = "CONNECTING" => netPc' = "ld_main"]_vars
  /\ [][netPc' = "ld_alt" /\ netPc # "ld_alt"
          => (netPc = "ld_main" /\ ~connected' /\ calibreAltPort > 0)]_vars
  /\ [][netPc = "ld_main" /\ netPc' = "ld_done" => (connected' \/ calibreAltPort = 0)]_vars
  /\ [][ConnectFailed /\ netPc' # netPc
          => (state' = "DISCOVERING" /\ calibrePort' = 0 /\ calibreAltPort' = 0)]_vars
  /\ ConnectFailed ~> (netPc = "ld_send" \/ shouldStop)

\* the broadcast that follows two failed connects to the ports of ReplyFull
C23_Witness ==
  /\ netPc = "ld_send"
  /\ state = "DISCOVERING"
  /\ calibreHostname = <<"h">>
  /\ calibrePort = 0 /\ calibreAltPort = 0
  /\ ~shouldStop

(***************************************************************************)
(* Properties of handleTcpClient and handleCommand.                        *)
(***************************************************************************)
\* the step in which handleTcpClient gets a message from readJsonMessage
MessageStep == netPc = "tcp_read" /\ returned' # returned

\* the step in which handleCommand runs the handler of a command
CommandStep == netPc = "dispatch" /\ netPc' # netPc

\* C24: a frame whose opcode is out of range, in range but unknown, or one of
\* the opcodes that are only acknowledged, is answered with the OK envelope
\* with an empty object, and the state and the transfer are left as they were.
C24_AcknowledgedOnly ==
  /\ [][MessageStep => (netPc' = "dispatch" /\ ~crashed')]_vars
  /\ [][CommandStep
          => /\ tcpTx' = Append(tcpTx, Envelope(OpCode.OK, EmptyObject))
             /\ UNCHANGED <<state, errorMessage, xferV, fileV>>]_vars

(***************************************************************************)
(* Properties of sendJsonResponse.                                         *)
(***************************************************************************)
\* C25: what sendJsonResponse writes for an opcode and a payload is the
\* decimal length of '[opcode,payload]' followed by that text, and
\* readJsonMessage, fed with it, returns '[opcode,payload]' and nothing else
\* and leaves recvBuffer empty.
C25_ResponseRoundTrip ==
  scenario = "envelope" /\ tcpTx # <<>>
    => LET json == JsonText(sentFrames[1].opcode, sentFrames[1].data) IN
       /\ tcpTx = <<Cat(Str(DecDigits(Size(json))), json)>>
       /\ IsPrefix(returned, <<json>>)
       /\ ~crashed
       /\ Quiescent => (returned = <<json>> /\ recvBuffer = <<>>)

C25_Witness ==
  /\ scenario = "envelope"
  /\ Quiescent
  /\ Len(returned) = 1
  /\ recvBuffer = <<>>
  /\ sentFrames[1].opcode = OpCode.ERROR
  /\ Size(sentFrames[1].data) > 93

(***************************************************************************)
(* Properties of onEnter after onExit.                                     *)
(***************************************************************************)
\* C26: when onEnter is called after onExit, the protocol state is the one of
\* a first session, whatever the session before did: DISCOVERING, an empty
\* recvBuffer, binary mode off, no host, host name or ports, the transfer
\* counters at zero, nothing in the write buffer and no file of a transfer.
C26_RestartIsFresh ==
  [][exitPc = "done" /\ exitPc' = "idle"
       => /\ state' = "DISCOVERING"
          /\ recvBuffer' = <<>>
          /\ ~inBinaryMode'
          /\ calibreHost' = <<>> /\ calibreHostname' = <<>>
          /\ calibrePort' = 0 /\ calibreAltPort' = 0
          /\ currentFileSize' = 0 /\ bytesReceived' = 0
          /\ binaryBytesRemaining' = 0
          /\ writeBuffer' = <<>>
          /\ ~currentWriteFile'
          /\ ~currentFile']_vars

(***************************************************************************)
(* Properties of readJsonMessage on a prefix that is not a length.         *)
(***************************************************************************)
\* the bytes readJsonMessage parses in this state, and where their first '[' is
Pending == Cat(recvBuffer, tcpRx)
PendingBracket == Find(Pending, "[")
CanCall == ~crashed /\ ~OverLimit(recvBuffer, tcpRx)

\* C27: when the bytes in front of the first '[' are empty or not all digits,
\* a call of readJsonMessage returns no frame and leaves in recvBuffer the
\* bytes after that '[': the buffer has become shorter.
C27_InvalidPrefixDiscarded ==
  (/\ CanCall
   /\ PendingBracket # NPOS
   /\ PendingBracket = 0 \/ ~AllDigits(Take(Pending, PendingBracket)))
  => LET r == readJsonMessage(recvBuffer, tcpRx) IN
       /\ ~r.ret
       /\ r.buf = Drop(Pending, PendingBracket + 1)
       /\ Size(r.buf) < Size(Pending)

\* a call of readJsonMessage on more than 12 bytes in front of the first '['
LongPrefixCall ==
  /\ CanCall
  /\ PendingBracket # NPOS
  /\ PendingBracket > MAX_PREFIX_LEN
  /\ wire' = wire

\* C28 (as stated): when more than 12 bytes stand in front of the first '[', a
\* call of readJsonMessage returns no frame and leaves the bytes it holds as
\* they were.
C28_LongPrefixWaits ==
  [][LongPrefixCall => (returned' = returned /\ recvBuffer' = Pending)]_vars

\* C28 (amended): when more than 12 bytes stand in front of the first '[', a
\* call of readJsonMessage returns no frame and drops those bytes: recvBuffer
\* then starts with that '['.
C28_LongPrefixDropped ==
  [][LongPrefixCall
       => /\ returned' = returned
          /\ ~crashed'
          /\ recvBuffer' = Drop(Pending, PendingBracket)
          /\ Find(recvBuffer', "[") = 0]_vars

C28_Witness ==
  /\ scenario = "longprefix"
  /\ returned = <<>>
  /\ tcpRx = <<>>
  /\ wire = <<>>
  /\ recvBuffer = Cat(BodyFreeSpace, Str(<<"m", "o", "r", "e">>))
  /\ sentFrames = <<BodyFreeSpace>>

(***************************************************************************)
(* Properties of the order of onExit.                                      *)
(***************************************************************************)
ExitOrder == <<"idle", "udp", "tcp", "flush", "null", "close", "wait", "killnet",
               "killnet_do", "wifi", "killdisp", "killdisp_do", "mutexes", "done">>
\* a task found deleted is not deleted by onExit
ExitSkip == {<<"killnet", "wifi">>, <<"killdisp", "mutexes">>}
ExitRank(pc) == CHOOSE i \in 1..Len(ExitOrder) : ExitOrder[i] = pc
ExitPassed(pc) == ExitRank(exitPc) > ExitRank(pc)
ExitStep(pc) == exitPc = pc /\ exitPc' # exitPc

RedrawTaken == updateRequired /\ ~updateRequired'
\* shouldStop is set, or an uncaught exception has ended the program
Stopped == shouldStop \/ crashed

\* C30: every change of state sets updateRequired, and no change is lost to
\* the display: updateRequired is lowered only by the display task on its way
\* to render(), and while shouldStop is not set and the display task keeps
\* running, a raised updateRequired is lowered later on and the render() that
\* follows starts; changes made in between are served by that one render().
C30_ChangeIsRendered ==
  /\ [][state' # state => updateRequired']_vars
  /\ [][RedrawTaken => (dispPc = "loop" /\ dispPc' = "take")]_vars
  /\ (updateRequired ~> (~updateRequired \/ Stopped))
  /\ (dispPc = "take" ~> (dispPc = "render" \/ Stopped))

C30_Witness ==
  /\ dispPc = "render"
  /\ renderingMutex = "display"
  /\ ~updateRequired
  /\ state = "RECEIVING"
  /\ unlockedStateRead
  /\ ~shouldStop /\ ~crashed

(***************************************************************************)
(* Properties of the tasks at the end of onExit.                           *)
(***************************************************************************)
\* C31: when onExit turns WiFi off (lines 152-161) neither the network task
\* nor the display task, whose render() reads WiFi.localIP(), is still alive.
C31_NoWorkerAtWifiOff ==
  [][wifiOn /\ ~wifiOn' => (netAlive # "running" /\ dispAlive # "running")]_vars

\* C32: neither task is deleted twice: a task that has deleted itself
\* (vTaskDelete(nullptr), lines 211 and 246) is not deleted again by onExit
\* (lines 148 and 168), in any interleaving.
C32_DeletedAtMostOnce == netAlive # "twice" /\ dispAlive # "twice"

(***************************************************************************)
(* Properties of DISPLAY_MESSAGE and NOOP.                                 *)
(***************************************************************************)
\* C33: the dispatch of a DISPLAY_MESSAGE sends one OK envelope with an empty
\* object; it moves the state to ERROR with the message "Password required"
\* when the messageKind of the payload is 1, and leaves state and message as
\* they are otherwise.
C33_PasswordErrorOnly ==
  [][CommandStep /\ message.opcode = OpCode.DISPLAY_MESSAGE
       => /\ tcpTx' = Append(tcpTx, Envelope(OpCode.OK, EmptyObject))
          /\ IF message.data \in PasswordRequired
             THEN state' = "ERROR" /\ errorMessage' = "Password required"
             ELSE state' = state /\ errorMessage' = errorMessage]_vars

\* C34: the dispatch of a NOOP sends one NOOP envelope with an empty object;
\* it moves the state to DISCONNECTED when the payload's ejecting is true,
\* and leaves the state as it is otherwise.
C34_DisconnectOnEject ==
  [][CommandStep /\ message.opcode = OpCode.NOOP
       => /\ tcpTx' = Append(tcpTx, Envelope(OpCode.NOOP, EmptyObject))
          /\ IF message.data \in PeerEjecting
             THEN state' = "DISCONNECTED"
             ELSE state' = state]_vars

(***************************************************************************)
(* Properties of getSDCardFreeSpace.                                       *)
(***************************************************************************)
\* the candidates that fit the card's free space
Fitting == { k \in 1..Len(probeSizes) : probeSizes[k] <= probe.free }
FirstFitting == CHOOSE k \in Fitting : \A j \in Fitting : k <= j

\* C35: getSDCardFreeSpace tries the candidates in the order of probeSizes,
\* from 256 GiB down, and goes on only after a failure; when the probe file
\* was opened it returns the first candidate whose preAllocate succeeds, the
\* largest that fits (64 MiB when none does), and by then the reservation
\* has been released and the file has been closed and removed.
C35_ProbeLargestAndCleanup ==
  /\ probe.tried = SubSeq(probeSizes, 1, Len(probe.tried))
  /\ \A k \in 1..(Len(probe.tried) - 1) : probe.tried[k] > probe.free
  /\ probe.reserved > 0 => probe.pc = "truncate"
  /\ probe.pc = "done" /\ probe.canOpen
       => /\ probe.result = IF Fitting = {} THEN MinimumFallback
                            ELSE probeSizes[FirstFitting]
          /\ Fitting # {} => probe.tried[Len(probe.tried)] = probe.result
          /\ ~probe.testFile
          /\ ~probe.exists
          /\ probe.reserved = 0

C35_Witness ==
  /\ probe.pc = "done"
  /\ probe.canOpen
  /\ probe.free = 2 * GiB + 1
  /\ probe.result = 2 * GiB
  /\ Len(probe.tried) = 8
  /\ ~probe.exists

(***************************************************************************)
(* Properties of the counters of a transfer.                               *)
(***************************************************************************)
\* C36: while binary mode is on, the bytes received and the bytes that remain
\* add up to the declared length of the book, after every step of
\* handleSendBook and of receiveBinaryData.
C36_CountersAddUp ==
  inBinaryMode => bytesReceived + binaryBytesRemaining = currentFileSize

C36_Witness ==
  /\ inBinaryMode
  /\ AtStepBoundary
  /\ drained > 0
  /\ bytesReceived > drained
  /\ binaryBytesRemaining > 0
  /\ bytesReceived + binaryBytesRemaining = currentFileSize

(***************************************************************************)
(* Properties of bufferedWrite.                                            *)
(***************************************************************************)
\* the network task is inside bufferedWrite, or back from it with the bytes
\* of the call not yet counted in bytesReceived
InBufferedWrite == netPc \in {"bw_loop", "bw_flush"}
BackFromBufferedWrite == netPc \in {"sb_drained", "rb_written"}
\* the bytes of the book handed to bufferedWrite so far
Fed == bytesReceived + (IF InBufferedWrite \/ BackFromBufferedWrite THEN chunk ELSE 0)

\* C37: as long as no write to the card has failed, the bytes on the card
\* followed by the bytes in writeBuffer are the bytes handed to bufferedWrite
\* so far (those of the call in progress that are not copied yet aside);
\* writeBuffer never holds more than 4096 bytes, and fewer than 4096 whenever
\* bufferedWrite has returned true.
C37_CoalescingPreserved ==
  /\ ~writeFailed => Cat(Cat(disk, writeBuffer), bwData) = Book(Fed)
  /\ Size(writeBuffer) <= WRITE_BUFFER_SIZE
  /\ BackFromBufferedWrite /\ bwOk => Size(writeBuffer) < WRITE_BUFFER_SIZE

(***************************************************************************)
(* Properties of binary mode.                                              *)
(***************************************************************************)
\* the bytes of the peer that no handler has consumed yet
Unread == Cat(recvBuffer, Cat(tcpRx, wire))
\* the frames the peer sends behind the book, as they are on the wire
RECURSIVE FrameStream(_)
FrameStream(bodies) ==
  IF bodies = <<>> THEN <<>> ELSE Cat(Frame(Head(bodies)), FrameStream(Tail(bodies)))
BehindBook ==
  LET k == CHOOSE i \in 1..Len(sentFrames) :
             \E len \in BookLengths : sentFrames[i] = SendBookBody(len)
  IN  FrameStream(SubSeq(sentFrames, k + 1, Len(sentFrames)))
NeverDropped == tcpConnected /\ ~droppedInTransfer /\ ~droppedIdle

\* the parts of C38 that are about one step: while binary mode is on no frame
\* is returned or dispatched, a read of receiveBinaryData takes at most
\* binaryBytesRemaining bytes from the socket, and when the transfer completes
\* on a connection that was never lost the bytes not consumed are exactly the
\* frames sent behind the book
BinaryModeSteps ==
  /\ [][inBinaryMode => (returned' = returned /\ netPc' # "dispatch")]_vars
  /\ [][netPc = "rb_read" /\ netPc' # netPc
          => Size(tcpRx) - Size(tcpRx') <= binaryBytesRemaining]_vars
  /\ [][inBinaryMode /\ ~inBinaryMode' /\ completions' > completions /\ NeverDropped'
          => Unread' = BehindBook]_vars

\* C38: binary mode leaves the bytes behind the file payload intact: between
\* two steps of a transfer on a connection that was never lost, the bytes not
\* consumed are the binaryBytesRemaining last bytes of the book followed by
\* the frames sent behind it.
C38_StreamInStep ==
  inBinaryMode /\ AtStepBoundary /\ NeverDropped
    => Unread = Drop(Cat(Book(currentFileSize), BehindBook),
                     currentFileSize - binaryBytesRemaining)

(***************************************************************************)
(* Properties of the responses.                                            *)
(***************************************************************************)
\* the returned frames that have the form [opcode,payload]
RECURSIVE EnvelopesIn(_)
EnvelopesIn(frames) ==
  IF frames = <<>> THEN 0
  ELSE EnvelopesIn(Tail(frames))
         + (IF ParseMessage(Chars(Head(frames))).found THEN 1 ELSE 0)
\* the steps that belong to the dispatch of a frame
InDispatch == netPc \in {"dispatch", "sb_open", "sb_init", "sb_ack"}

\* C39: when the network task is between two steps, or has stopped on an
\* exception, it has sent one response for each frame of the form
\* [opcode,payload] that the codec returned and one for each completed
\* transfer; a response is sent only during a dispatch or at a completion.
C39_OneResponseEach ==
  /\ [](AtStepBoundary \/ crashed
          => Len(tcpTx) = EnvelopesIn(returned) + completions)
  /\ [][tcpTx' # tcpTx
          => /\ Len(tcpTx') = Len(tcpTx) + 1
             /\ InDispatch \/ completions' = completions + 1]_vars

(***************************************************************************)
(* Termination of bufferedWrite.                                           *)
(***************************************************************************)
\* a turn of the loop of bufferedWrite that has input left
LoopTurn == netPc = "bw_loop" /\ bwData # <<>> /\ netPc' # netPc

\* C40: every turn of the loop of bufferedWrite that has input left takes at
\* least one byte of it, so that the call returns after at most as many turns
\* as it was given bytes.
C40_EachTurnConsumes == [][LoopTurn => Size(bwData') < Size(bwData)]_vars

=============================================================================
